---- MODULE Spec2Model ----
(***************************************************************************)
(* Model of player/command.c: the hook manager (hook_remove ..             *)
(* mp_hook_add) and the command pipeline (run_command, the list driver,    *)
(* mp_cmd_ctx_complete, the worker-thread entry point).                    *)
(*                                                                         *)
(* Every function of the hook manager runs on the core thread with the     *)
(* core locked, so one call is one atomic step.                            *)
(***************************************************************************)
EXTENDS Integers, Sequences, FiniteSets, TLC

\* ------------------------------------------------------------------------
\* Bounds and input domains
\* ------------------------------------------------------------------------

\* Number of mp_hook_add calls explored (caps command_ctx.hook_seq).
MaxHooks == 3

\* Number of command contexts (run_command calls) explored.
MaxCtx == 3

\* Largest number of sub-commands of a list run on its own.
MaxSubs == 3

\* Largest nesting of M_PROPERTY_KEY_ACTION around a property action.
MaxKeyDepth == 2

\* Jobs the worker pool holds at a time (queued or running).
PoolSize == 1

\* Client API user names.
Clients == {"A", "B"}

\* Hook types (hook_handler.type).
Types == {"on_load", "on_unload"}

\* Priorities passed to mp_hook_add.
Priorities == {0, 10}

\* libmpv error code returned by mp_hook_continue on invalid usage.
MPV_ERROR_INVALID_PARAMETER == -4

\* ------------------------------------------------------------------------
\* 32-bit int arithmetic (compare_hook returns int)
\* ------------------------------------------------------------------------

INT_MAX == 2147483647

INT_MIN == (-INT_MAX) - 1

\* a - b on 32-bit signed ints as the two's-complement machine computes it
\* (wrapping), written so that no intermediate value leaves the int range.
Sub32(a, b) ==
    IF b >= 0
      THEN IF a >= INT_MIN + b
             THEN a - b
             ELSE ((a - INT_MIN) + (INT_MAX - b)) + 1
      ELSE IF a <= INT_MAX + b
             THEN a - b
             ELSE ((a - INT_MAX) + (INT_MIN - b)) - 1

\* ------------------------------------------------------------------------
\* State
\* ------------------------------------------------------------------------

VARIABLES
    hooks,      \* command_ctx.hooks[0..num_hooks-1]: sequence of hook_handler
    hook_seq,   \* command_ctx.hook_seq
    clients,    \* names of the client API users that currently exist
    round,      \* per type: seq numbers notified successfully since the
                \* last mp_hook_start of that type
    startSeq,   \* per type: hook_seq when mp_hook_start was last called
                \* (0: never started)
    sent        \* per type and seq number: invocations sent to the handler
                \* in the processing round that is open (counted up to 2)

hookVars == <<hooks, hook_seq, clients, round, startSeq, sent>>

VARIABLES
    ctxs,               \* every mp_cmd_ctx allocated so far, by allocation
    lists,              \* every cmd_list_ctx allocated so far
    jobs,               \* contexts handed to the worker pool, not finished
    outstanding_async,  \* MPContext.outstanding_async
    aborts,             \* contexts whose mp_abort_entry is registered
    uaf,                \* a freed context or list context was used
    shutting_down,      \* what mp_is_shutting_down returns
    wakeups             \* mp_wakeup_core calls made by pool threads

VARIABLES
    lock,       \* holder of the core lock: CoreThread, PoolThread(job) or
                \* NoThread
    wpc,        \* per job: how far its pool thread is in
                \* run_command_on_worker_thread
    unlocked    \* a handler body or a completion ran on a thread that did
                \* not hold the core lock

lockVars == <<lock, wpc, unlocked>>

\* Threads, as holders of the core lock.  job is the context a pool thread
\* runs.
CoreThread == [thread |-> "core", job |-> 0]

PoolThread(id) == [thread |-> "pool", job |-> id]

NoThread == [thread |-> "none", job |-> 0]

cmdVars == <<ctxs, lists, jobs, outstanding_async, aborts, uaf,
             shutting_down, wakeups, lockVars>>

VARIABLES
    prop_call   \* the last mp_property_do call: name, action, the result
                \* of m_property_do and the names handed to
                \* mp_notify_property
VARIABLES
    opt_call    \* the last mp_on_set_option call: its inputs and what it did
VARIABLES
    mp,         \* MPContext: playback_initialized and the options pause,
                \* volume and framedrop (mpctx->opts)
    pcall,      \* the last property access: what was asked, the result and
                \* the names handed to mp_notify_property
    cmd_call    \* the last property command: its inputs, MPContext before
                \* it, and what it did

propVars == <<prop_call, opt_call, mp, pcall, cmd_call>>

VARIABLES
    match_call  \* the running match_property or
                \* mp_get_property_event_mask call and its result

VARIABLES
    cmp_call,   \* the running compare_hook call and its result
    seek_ctx    \* command_ctx.last_seek_pts, last_seek_time and marked_pts,
                \* with the playback position, the clock and the seeks
                \* queued

auxVars == <<cmp_call, seek_ctx>>

vars == <<hooks, hook_seq, clients, round, startSeq, sent,
          ctxs, lists, jobs, outstanding_async, aborts, uaf,
          shutting_down, wakeups, lock, wpc, unlocked, prop_call, opt_call, mp, pcall,
          cmd_call, match_call, cmp_call, seek_ctx>>

\* struct hook_handler.  user_id and legacy only select the encoding of the
\* event handed to mp_client_send_event and are not tracked.
HookHandler(client, type, priority, seq) ==
    [client |-> client, type |-> type, priority |-> priority,
     seq |-> seq, active |-> FALSE]

RemoveAt(s, i) == [k \in 1..(Len(s) - 1) |-> IF k < i THEN s[k] ELSE s[k + 1]]

\* hook_remove: drops the entry that is handler h (here: index i).
hook_remove(hs, i) == RemoveAt(hs, i)

\* Client table of player/client.c: a client exists while it is connected.
mp_client_exists(cl, name) == name \in cl

\* mp_client_send_event: < 0 when the event cannot be delivered.
mp_client_send_event(cl, name) == IF name \in cl THEN 0 ELSE -1

\* Indexes n >= index of the handlers of the given type.
TypeIdx(hs, type, index) ==
    {n \in index..Len(hs) : hs[n].type = type}

Min(S) == CHOOSE x \in S : \A y \in S : x <= y

\* Result of a hook manager call that may notify clients:
\*   hooks   the handler list afterwards
\*   r       the return value
\*   woke    number of mp_wakeup_core calls
\*   invoked seq of the handler notified successfully (0: none)
\*   failed  seqs of the handlers removed because notification failed
CallResult(hs, r, woke, invoked, failed) ==
    [hooks |-> hs, r |-> r, woke |-> woke, invoked |-> invoked,
     failed |-> failed]

\* invoke_hook_handler on hooks[i].
invoke_hook_handler(hs, cl, i) ==
    LET act == [hs EXCEPT ![i].active = TRUE]
        r   == mp_client_send_event(cl, hs[i].client)
    IN  IF r < 0
          THEN CallResult(hook_remove(act, i), r, 1, 0, {hs[i].seq})
          ELSE CallResult(act, r, 0, hs[i].seq, {})

Max(S) == CHOOSE x \in S : \A y \in S : x >= y

\* Faulty variant: takes the last handler of the type instead of the first.
run_next_hook_handler_last(hs, cl, type, index) ==
    LET idx == TypeIdx(hs, type, index)
    IN  IF idx # {}
          THEN invoke_hook_handler(hs, cl, Max(idx))
          ELSE CallResult(hs, 0, 1, 0, {})

\* Faulty variant: takes the first handler at position >= index, whatever
\* its type.
run_next_hook_handler_anytype(hs, cl, type, index) ==
    IF index <= Len(hs)
      THEN invoke_hook_handler(hs, cl, index)
      ELSE CallResult(hs, 0, 1, 0, {})

\* run_next_hook_handler: first handler of the type at position >= index.
run_next_hook_handler(hs, cl, type, index) ==
    LET idx == TypeIdx(hs, type, index)
    IN  IF idx # {}
          THEN invoke_hook_handler(hs, cl, Min(idx))
          ELSE CallResult(hs, 0, 1, 0, {})

\* mp_hook_start: repeats run_next_hook_handler from index 0 while it fails.
RECURSIVE mp_hook_start(_, _, _)
mp_hook_start(hs, cl, type) ==
    LET res == run_next_hook_handler(hs, cl, type, 1)
    IN  IF res.r < 0
          THEN LET rest == mp_hook_start(res.hooks, cl, type)
               IN  CallResult(rest.hooks, rest.r, res.woke + rest.woke,
                              rest.invoked, res.failed \cup rest.failed)
          ELSE res

\* Index of the first handler with this client and seq (0: none).
FindHandler(hs, client, id) ==
    LET idx == {n \in 1..Len(hs) : hs[n].client = client /\ hs[n].seq = id}
    IN  IF idx = {} THEN 0 ELSE Min(idx)

\* Faulty variant: drops the acknowledged registration.
mp_hook_continue_removing(hs, cl, client, id) ==
    LET n == FindHandler(hs, client, id)
    IN  IF n = 0 \/ ~hs[n].active
          THEN CallResult(hs, MPV_ERROR_INVALID_PARAMETER, 0, 0, {})
          ELSE run_next_hook_handler(hook_remove(hs, n), cl, hs[n].type, n)

\* Faulty variant: acknowledges a registration that is not active.
mp_hook_continue_inactive(hs, cl, client, id) ==
    LET n == FindHandler(hs, client, id)
    IN  IF n = 0
          THEN CallResult(hs, MPV_ERROR_INVALID_PARAMETER, 0, 0, {})
          ELSE run_next_hook_handler([hs EXCEPT ![n].active = FALSE], cl,
                                     hs[n].type, n + 1)

\* mp_hook_continue.
mp_hook_continue(hs, cl, client, id) ==
    LET n == FindHandler(hs, client, id)
    IN  IF n = 0 \/ ~hs[n].active
          THEN CallResult(hs, MPV_ERROR_INVALID_PARAMETER, 0, 0, {})
          ELSE run_next_hook_handler([hs EXCEPT ![n].active = FALSE], cl,
                                     hs[n].type, n + 1)

\* Faulty variant: never looks whether the client still exists.
mp_hook_test_completion_nocheck(hs, cl, type) ==
    LET idx == {n \in 1..Len(hs) : hs[n].active /\ hs[n].type = type}
    IN  [hooks |-> hs, ret |-> idx = {}]

\* mp_hook_test_completion: [hooks, ret].
mp_hook_test_completion(hs, cl, type) ==
    LET idx == {n \in 1..Len(hs) : hs[n].active /\ hs[n].type = type}
    IN  IF idx = {}
          THEN [hooks |-> hs, ret |-> TRUE]
          ELSE IF ~mp_client_exists(cl, hs[Min(idx)].client)
                 THEN [hooks |-> hook_remove(hs, Min(idx)), ret |-> TRUE]
                 ELSE [hooks |-> hs, ret |-> FALSE]

\* compare_hook: priority difference, then seq difference, as an int.  The
\* seq numbers reachable here are 1..MaxHooks, whose difference the
\* conversion from int64_t to int keeps.
compare_hook(h1, h2) ==
    IF h1.priority # h2.priority
      THEN Sub32(h1.priority, h2.priority)
      ELSE h1.seq - h2.seq

\* Insert h into a list ordered by compare_hook.
RECURSIVE InsertSorted(_, _)
InsertSorted(s, h) ==
    IF s = <<>> THEN <<h>>
    ELSE IF compare_hook(h, Head(s)) < 0
           THEN <<h>> \o s
           ELSE <<Head(s)>> \o InsertSorted(Tail(s), h)

\* qsort(cmd->hooks, cmd->num_hooks, ..., compare_hook): the permutation of
\* the array that compare_hook orders.
RECURSIVE qsort(_)
qsort(s) ==
    IF s = <<>> THEN <<>> ELSE InsertSorted(qsort(Tail(s)), Head(s))

\* Faulty variant: appends without sorting.
mp_hook_add_unsorted(hs, hseq, client, name, pri) ==
    LET seq == hseq + 1
    IN  [hooks |-> Append(hs, HookHandler(client, name, pri, seq)),
         hook_seq |-> seq]

\* mp_hook_add: [hooks, hook_seq].
mp_hook_add(hs, hseq, client, name, pri) ==
    LET seq == hseq + 1
    IN  [hooks |-> qsort(Append(hs, HookHandler(client, name, pri, seq))),
         hook_seq |-> seq]

\* No compare_hook call is running.
NoCompareCall ==
    [op |-> "idle", p1 |-> 0, s1 |-> [hi |-> 0, lo |-> 0],
     p2 |-> 0, s2 |-> [hi |-> 0, lo |-> 0], r |-> 0]

\* MP_NOPTS_VALUE: no position.
MP_NOPTS_VALUE == -1

\* command_init: last_seek_pts is MP_NOPTS_VALUE, the other fields of the
\* compound literal are zero.  pos is what get_current_time returns, now
\* what mp_time_sec returns, queued the target of the seek that queue_seek
\* left pending.  Bookkeeping: touched tells whether a seek or a mark
\* happened since the file started, revert_at where the last revert-seek
\* was issued when nothing was sought or marked since, and last is the
\* last command or event with the fields as they were before it.
SeekInit ==
    [last_seek_pts |-> MP_NOPTS_VALUE, last_seek_time |-> 0,
     marked_pts |-> 0, pos |-> 0, now |-> 0, queued |-> MP_NOPTS_VALUE,
     touched |-> FALSE, revert_at |-> MP_NOPTS_VALUE,
     last |-> [op |-> ""]]

\* ------------------------------------------------------------------------
\* Hook manager: actions
\* ------------------------------------------------------------------------

CmdInit ==
    /\ ctxs = <<>>
    /\ lists = <<>>
    /\ jobs = {}
    /\ outstanding_async = 0
    /\ aborts = {}
    /\ uaf = FALSE
    /\ shutting_down = FALSE
    /\ wakeups = 0
    /\ lock = CoreThread
    /\ wpc = [id \in 1..MaxCtx |-> "idle"]
    /\ unlocked = FALSE
    /\ prop_call = [name |-> "", action |-> <<>>, r |-> "", notified |-> <<>>]
    /\ opt_call = [name |-> "", prop |-> "none", r_type |-> "", r_set |-> "",
                   r_direct |-> 0, ret |-> 0, notified |-> <<>>,
                   set_called |-> FALSE, set_notified |-> <<>>,
                   marked |-> FALSE, direct |-> FALSE]
    /\ mp = [playback_initialized |-> FALSE, pause |-> 0, volume |-> 100,
             framedrop |-> 0]
    /\ pcall = [op |-> "", name |-> "", value |-> 0, r_direct |-> 0,
                r |-> "", notified |-> <<>>, init |-> FALSE]
    /\ cmd_call = [cmd |-> "", name |-> "", repeated |-> FALSE, units |-> 0,
                   rs |-> <<>>, v |-> 0, has_values |-> FALSE,
                   before |-> mp, success |-> TRUE, msgs |-> <<>>,
                   log |-> <<>>, status |-> <<>>, dropped |-> FALSE]
    /\ match_call =
         [op |-> "idle", a |-> <<>>, b |-> <<>>, r |-> FALSE, mask |-> {}]
    /\ cmp_call = NoCompareCall
    /\ seek_ctx = SeekInit

HookInit ==
    /\ CmdInit
    /\ hooks = <<>>
    /\ hook_seq = 0
    /\ clients = Clients
    /\ round = [t \in Types |-> {}]
    /\ startSeq = [t \in Types |-> 0]
    /\ sent = [t \in Types |-> [id \in 1..MaxHooks |-> 0]]

\* A client registers a hook (hook-add command, mpv_hook_add).
HookAdd(client, name, pri) ==
    /\ hook_seq < MaxHooks
    /\ client \in clients
    /\ LET res == mp_hook_add(hooks, hook_seq, client, name, pri)
       IN  /\ hooks' = res.hooks
           /\ hook_seq' = res.hook_seq
    /\ UNCHANGED <<clients, round, startSeq, sent>>
    /\ UNCHANGED <<cmdVars, propVars, match_call, auxVars>>

\* The player starts processing a hook type.
HookStart(type) ==
    /\ hooks' = mp_hook_start(hooks, clients, type).hooks
    /\ UNCHANGED <<hook_seq, clients>>
    /\ UNCHANGED <<cmdVars, propVars, match_call, auxVars>>

\* A client acknowledges (hook-ack command, mpv_hook_continue).
HookContinue(client, id) ==
    /\ client \in clients
    /\ hooks' = mp_hook_continue(hooks, clients, client, id).hooks
    /\ UNCHANGED <<hook_seq, clients>>
    /\ UNCHANGED <<cmdVars, propVars, match_call, auxVars>>

\* The player polls for completion of a hook type.
HookTestCompletion(type) ==
    /\ hooks' = mp_hook_test_completion(hooks, clients, type).hooks
    /\ UNCHANGED <<hook_seq, clients, round, startSeq, sent>>
    /\ UNCHANGED <<cmdVars, propVars, match_call, auxVars>>

\* A client disconnects; its registrations stay in the list.
ClientDisappear(client) ==
    /\ client \in clients
    /\ clients' = clients \ {client}
    /\ UNCHANGED <<hooks, hook_seq, round, startSeq, sent>>
    /\ UNCHANGED <<cmdVars, propVars, match_call, auxVars>>

\* Start and acknowledge without the record of the round.
PlainStart(type) == HookStart(type) /\ UNCHANGED <<round, startSeq, sent>>

PlainContinue(client, id) ==
    HookContinue(client, id) /\ UNCHANGED <<round, startSeq, sent>>

HookNext ==
    \/ \E c \in Clients, t \in Types, p \in Priorities : HookAdd(c, t, p)
    \/ \E t \in Types : PlainStart(t)
    \/ \E c \in Clients, id \in 1..MaxHooks : PlainContinue(c, id)
    \/ \E t \in Types : HookTestCompletion(t)
    \/ \E c \in Clients : ClientDisappear(c)

\* The hook manager under every order of calls.
HookSpec == HookInit /\ [][HookNext]_vars

\* The same calls, recording per type which handlers were notified since
\* the last mp_hook_start of that type.
RoundStart(type) ==
    /\ HookStart(type)
    /\ LET res == mp_hook_start(hooks, clients, type)
       IN  round' = [round EXCEPT ![type] =
                        IF res.invoked # 0 THEN {res.invoked} ELSE {}]
    /\ startSeq' = [startSeq EXCEPT ![type] = hook_seq]
    /\ UNCHANGED sent

RoundContinue(client, id) ==
    /\ HookContinue(client, id)
    /\ LET res == mp_hook_continue(hooks, clients, client, id)
           n   == FindHandler(hooks, client, id)
       IN  round' = IF res.invoked # 0
                      THEN [round EXCEPT ![hooks[n].type] =
                               @ \cup {res.invoked}]
                      ELSE round
    /\ UNCHANGED <<startSeq, sent>>

HookRoundNext ==
    \/ \E c \in Clients, t \in Types, p \in Priorities : HookAdd(c, t, p)
    \/ \E t \in Types : RoundStart(t)
    \/ \E c \in Clients, id \in 1..MaxHooks : RoundContinue(c, id)
    \/ \E t \in Types : HookTestCompletion(t)
    \/ \E c \in Clients : ClientDisappear(c)

HookRoundSpec == HookInit /\ [][HookRoundNext]_vars

\* ------------------------------------------------------------------------
\* Hook manager: properties
\* ------------------------------------------------------------------------

\* Indexes of the active handlers of a type.
ActiveOfType(hs, type) ==
    {n \in 1..Len(hs) : hs[n].active /\ hs[n].type = type}

\* Seq numbers of the active handlers of a type.
ActiveSeqs(hs, type) == {hs[n].seq : n \in ActiveOfType(hs, type)}

Registered(hs, id) == \E n \in 1..Len(hs) : hs[n].seq = id

\* The order the handlers are meant to run in: priority, then seq.
LessHook(h1, h2) ==
    \/ h1.priority < h2.priority
    \/ h1.priority = h2.priority /\ h1.seq < h2.seq

\* Seq of the handler of the type that is least in that order among those
\* in S (indexes); 0 when S is empty.
LeastSeq(hs, S) ==
    IF S = {} THEN 0
    ELSE hs[CHOOSE n \in S : \A m \in S \ {n} : LessHook(hs[n], hs[m])].seq

FirstInOrder(hs, type) == LeastSeq(hs, TypeIdx(hs, type, 1))

NextInOrder(hs, type, h) ==
    LeastSeq(hs, {n \in TypeIdx(hs, type, 1) : LessHook(h, hs[n])})

\* Handlers whose acknowledgement is valid: active, client connected.
Ackable(hs, cl) == {n \in 1..Len(hs) : hs[n].active /\ hs[n].client \in cl}

Ack(hs, cl, n) == mp_hook_continue(hs, cl, hs[n].client, hs[n].seq)

\* C1: for every hook type at most one registration has its active flag
\* set, after any sequence of register, start, acknowledge, poll and
\* client-disappearance calls.
C1_AtMostOneActive ==
    \A t \in Types : Cardinality(ActiveOfType(hooks, t)) <= 1

C3_CompletionTracksActive ==
    \A t \in Types :
        /\ (\E n \in ActiveOfType(hooks, t) : hooks[n].client \in clients)
              => ~mp_hook_test_completion(hooks, clients, t).ret
        /\ \A n \in ActiveOfType(hooks, t) \cap Ackable(hooks, clients) :
              NextInOrder(hooks, t, hooks[n]) = 0 =>
                mp_hook_test_completion(Ack(hooks, clients, n).hooks,
                                        clients, t).ret

\* C4: when start returns, either exactly one handler of the type is
\* active, and that is the one notified successfully, or no handler of the
\* type remains and the core was woken; no handler whose notification
\* failed is still registered.
C4_StartActivatesOrCompletes ==
    \A t \in Types :
        LET res == mp_hook_start(hooks, clients, t)
        IN  /\ \/ \E n \in 1..Len(res.hooks) :
                    /\ ActiveOfType(res.hooks, t) = {n}
                    /\ res.hooks[n].seq = res.invoked
                    /\ res.hooks[n].client \in clients
               \/ /\ TypeIdx(res.hooks, t, 1) = {}
                  /\ res.woke >= 1
            /\ \A id \in res.failed : ~Registered(res.hooks, id)

\* C5: after a valid acknowledgement of handler h, either a later handler
\* of h's type is active or no handler of that type follows h.
C5_AckAdvancesPastFailures ==
    \A n \in Ackable(hooks, clients) :
        LET h   == hooks[n]
            res == Ack(hooks, clients, n)
            later == {m \in TypeIdx(res.hooks, h.type, 1) :
                        LessHook(h, res.hooks[m])}
        IN  \/ \E m \in later : res.hooks[m].active
            \/ later = {}

C7_CompleteOnlyAfterAllInvoked ==
    \A t \in Types :
        LET res == mp_hook_test_completion(hooks, clients, t)
        IN  (startSeq[t] > 0 /\ res.ret) =>
                \A n \in TypeIdx(res.hooks, t, 1) :
                    (res.hooks[n].client \in clients
                       /\ res.hooks[n].seq <= startSeq[t])
                      => res.hooks[n].seq \in round[t]

\* C8 as stated: after a valid acknowledgement the acknowledged
\* registration is no longer registered.
C8_AckRemovesRegistration ==
    \A n \in Ackable(hooks, clients) :
        ~Registered(Ack(hooks, clients, n).hooks, hooks[n].seq)

\* C8 amended: after a valid acknowledgement the acknowledged registration
\* is still registered, unchanged but inactive, and a later start of its
\* type notifies it again when it is the first of the type.
C8_AckKeepsRegistration ==
    \A n \in Ackable(hooks, clients) :
        LET h   == hooks[n]
            res == Ack(hooks, clients, n)
        IN  /\ \E m \in 1..Len(res.hooks) :
                  res.hooks[m] = [h EXCEPT !.active = FALSE]
            /\ FirstInOrder(res.hooks, h.type) = h.seq =>
                  mp_hook_start(res.hooks, clients, h.type).invoked = h.seq

\* A running handler whose acknowledgement hands over to a second handler
\* and which a later start would notify again.
C8_Witness ==
    \E n \in Ackable(hooks, clients) :
        LET h   == hooks[n]
            res == Ack(hooks, clients, n)
        IN  /\ res.invoked # 0
            /\ Registered(res.hooks, h.seq)
            /\ mp_hook_start(res.hooks, clients, h.type).invoked = h.seq

LeafCmds ==
    [kind : {"sync", "worker"}, async : BOOLEAN,
     outcome : {"ok", "fail", "expand_fail"}, args : {<<>>}]

ListCmd(async, subs) ==
    [kind |-> "list", async |-> async, outcome |-> "ok", args |-> subs]

\* Commands that allocate exactly n contexts, and sequences of commands
\* that allocate exactly n contexts in total.
RECURSIVE CmdsOfSize(_), ArgsOfSize(_)
CmdsOfSize(n) ==
    IF n < 1 THEN {}
    ELSE (IF n = 1 THEN LeafCmds ELSE {})
           \cup {ListCmd(a, subs) : a \in BOOLEAN, subs \in ArgsOfSize(n - 1)}

ArgsOfSize(n) ==
    IF n = 0 THEN {<<>>}
    ELSE UNION {{<<c>> \o rest : c \in CmdsOfSize(k),
                                 rest \in ArgsOfSize(n - k)} : k \in 1..n}

\* Commands a caller may submit, by the number of contexts they allocate.
\* MP_ASYNC_CMD is only read by the list driver.
CmdsBySize == [n \in 1..MaxCtx |-> {c \in CmdsOfSize(n) : ~c.async}]

\* Lists of up to MaxSubs leaf sub-commands.
RECURSIVE LeafArgs(_)
LeafArgs(n) ==
    IF n = 0 THEN {<<>>}
    ELSE {<<c>> \o rest : c \in LeafCmds, rest \in LeafArgs(n - 1)}

FlatLists == UNION {{ListCmd(FALSE, subs) : subs \in LeafArgs(n)} : n \in 0..MaxSubs}

\* struct mp_cmd_def
spawn_thread(cmd) == cmd.kind \in {"worker", "subprocess"}

exec_async_never(cmd) == FALSE

exec_async(cmd) == cmd.kind = "list"

can_abort(cmd) == cmd.kind \in {"worker", "subprocess"}

\* ------------------------------------------------------------------------
\* Command pipeline: run_command and what it calls
\* ------------------------------------------------------------------------

\* The pipeline state the functions below transform: a record with one
\* field per variable of cmdVars.
CmdState ==
    [ctxs |-> ctxs, lists |-> lists, jobs |-> jobs,
     outstanding_async |-> outstanding_async, aborts |-> aborts, uaf |-> uaf,
     shutting_down |-> shutting_down, wakeups |-> wakeups]

\* struct mp_cmd_ctx as run_command initialises it.  calls counts the
\* mp_cmd_ctx_complete calls on the context, cb_calls the invocations of
\* its on_completion, handler_calls the invocations of cmd->def->handler,
\* freed is set by talloc_free(cmd).  result is what cmd->result holds
\* ("empty": MPV_FORMAT_NONE, as after talloc_zero), seen what it held when
\* on_completion was called ("": not called).
NewCtx(cmd, on_completion, priv) ==
    [cmd |-> cmd, args |-> cmd.args, abort |-> can_abort(cmd),
     success |-> TRUE, completed |-> TRUE,
     on_completion |-> on_completion, on_completion_priv |-> priv,
     calls |-> 0, cb_calls |-> 0, handler_calls |-> 0, freed |-> FALSE,
     result |-> "empty", seen |-> ""]

\* struct cmd_list_ctx after talloc_zero and cmd_list's assignments, with
\* a record of what the driver did for the list:
\*   started    one entry per sub-command handed to run_command, in that
\*              order (see Started)
\*   in_run     context of the sub-command whose run_command call the
\*              driver is inside (0: none)
\*   depth      continue_cmd_list activations for the list on the stack
\*   max_depth  largest depth so far
\*   resumed    calls of continue_cmd_list by on_cmd_list_sub_completion
\*   resumed_inline  those of them made while the driver was still inside
\*              the run_command call of the completing sub-command
\*   inline_completions  completions of synchronous sub-commands that
\*              happened inside the run_command call that started them
\*   at_completion  one entry per mp_cmd_ctx_complete(list->parent) call of
\*              the driver: how many sub-commands had been started, and
\*              which synchronous ones had not signalled completion
NewList(parent) ==
    [parent |-> parent, current_valid |-> FALSE, current |-> "",
     completed_recursive |-> FALSE, freed |-> FALSE,
     started |-> <<>>, in_run |-> 0, depth |-> 0, max_depth |-> 0,
     resumed |-> 0, resumed_inline |-> 0, inline_completions |-> 0,
     at_completion |-> <<>>]

\* Entry of started for the sub-command at position pos of the list, run
\* as context id in state S: prev_done tells whether every synchronous
\* sub-command started earlier had signalled completion at that moment.
Started(S, l, id, pos, sub) ==
    [id |-> id, pos |-> pos, cmd |-> sub,
     prev_done |-> \A k \in 1..Len(S.lists[l].started) :
                      LET e == S.lists[l].started[k]
                      IN  ~e.cmd.async => S.ctxs[e.id].calls >= 1]

\* mp_thread_pool_queue: false when the pool cannot take the job.
mp_thread_pool_queue(S) == Cardinality(S.jobs) < PoolSize

\* A handler that runs to completion: it writes cmd->result, and sets
\* cmd->success = false on failure.
run_handler(S, id) ==
    [S EXCEPT !.ctxs[id].success = (S.ctxs[id].cmd.outcome = "ok"),
              !.ctxs[id].result = "value",
              !.ctxs[id].handler_calls = @ + 1,
              !.uaf = @ \/ S.ctxs[id].freed]

RECURSIVE run_command(_, _, _, _, _), mp_cmd_ctx_complete(_, _, _),
          continue_cmd_list(_, _, _), on_completion(_, _, _),
          cmd_list_loop(_, _, _)

\* Faulty variant: leaves the abort entry in the registry.
mp_cmd_ctx_complete_keep_abort(S, id, thr) ==
    IF S.ctxs[id].freed
      THEN [S EXCEPT !.uaf = TRUE, !.ctxs[id].calls = @ + 1]
      ELSE LET S1 == [S EXCEPT !.ctxs[id].completed = TRUE,
                               !.ctxs[id].calls = @ + 1]
               S2 == IF S1.ctxs[id].on_completion # "none"
                       THEN on_completion(
                              [S1 EXCEPT !.ctxs[id].cb_calls = @ + 1], id, thr)
                       ELSE S1
           IN  [S2 EXCEPT !.ctxs[id].freed = TRUE,
                          !.uaf = @ \/ S2.ctxs[id].freed]

\* Faulty variant: the result of a failed command is not released before
\* on_completion.
mp_cmd_ctx_complete_keep_result(S, id, thr) ==
    IF S.ctxs[id].freed
      THEN [S EXCEPT !.uaf = TRUE, !.ctxs[id].calls = @ + 1]
      ELSE LET S1 == [S EXCEPT !.ctxs[id].completed = TRUE,
                               !.ctxs[id].calls = @ + 1]
               S2 == IF S1.ctxs[id].on_completion # "none"
                       THEN on_completion(
                              [S1 EXCEPT !.ctxs[id].cb_calls = @ + 1,
                                         !.ctxs[id].seen =
                                            S1.ctxs[id].result],
                              id, thr)
                       ELSE S1
               S3 == IF S2.ctxs[id].abort
                       THEN [S2 EXCEPT !.aborts = @ \ {id}]
                       ELSE S2
           IN  [S3 EXCEPT !.ctxs[id].result = "empty",
                          !.ctxs[id].freed = TRUE,
                          !.uaf = @ \/ S2.ctxs[id].freed]

\* mp_cmd_ctx_complete(cmd) on thread thr.
mp_cmd_ctx_complete(S, id, thr) ==
    IF S.ctxs[id].freed
      THEN [S EXCEPT !.uaf = TRUE, !.ctxs[id].calls = @ + 1]
      ELSE LET S1 == [S EXCEPT !.ctxs[id].completed = TRUE,
                               !.ctxs[id].calls = @ + 1,
                               !.ctxs[id].result =
                                  IF ~S.ctxs[id].success THEN "empty" ELSE @]
               S2 == IF S1.ctxs[id].on_completion # "none"
                       THEN on_completion(
                              [S1 EXCEPT !.ctxs[id].cb_calls = @ + 1,
                                         !.ctxs[id].seen =
                                            S1.ctxs[id].result],
                              id, thr)
                       ELSE S1
               S3 == IF S2.ctxs[id].abort
                       THEN [S2 EXCEPT !.aborts = @ \ {id}]
                       ELSE S2
           IN  [S3 EXCEPT !.ctxs[id].result = "empty",
                          !.ctxs[id].freed = TRUE,
                          !.uaf = @ \/ S2.ctxs[id].freed]

\* Faulty variant: every completion of a sub-command calls the driver.
on_completion_always_continue(S, id, thr) ==
    IF S.ctxs[id].on_completion = "list"
      THEN continue_cmd_list(S, S.ctxs[id].on_completion_priv, thr)
      ELSE S

\* Faulty variant: a failed sub-command does not continue its list.
on_completion_stop_on_failure(S, id, thr) ==
    IF S.ctxs[id].on_completion = "list" /\ S.ctxs[id].success
      THEN LET l == S.ctxs[id].on_completion_priv
           IN  IF S.lists[l].current_valid /\ S.lists[l].current = thr
                 THEN [S EXCEPT !.lists[l].completed_recursive = TRUE]
                 ELSE continue_cmd_list(S, l, thr)
      ELSE S

\* cmd->on_completion(cmd): "top" is the submitter's continuation, "list"
\* is on_cmd_list_sub_completion.
on_completion(S, id, thr) ==
    IF S.ctxs[id].on_completion = "list"
      THEN LET l  == S.ctxs[id].on_completion_priv
               S1 == IF S.lists[l].in_run = id
                       THEN [S EXCEPT !.lists[l].inline_completions = @ + 1]
                       ELSE S
           IN  IF S.lists[l].freed
                 THEN [S EXCEPT !.uaf = TRUE]
                 ELSE IF S.lists[l].current_valid /\ S.lists[l].current = thr
                        THEN [S1 EXCEPT !.lists[l].completed_recursive = TRUE]
                        ELSE continue_cmd_list(
                               [S1 EXCEPT
                                  !.lists[l].resumed = @ + 1,
                                  !.lists[l].resumed_inline =
                                     IF S.lists[l].in_run = id
                                       THEN @ + 1 ELSE @],
                               l, thr)
      ELSE S

\* sub->flags & MP_ASYNC_CMD
is_async_never(sub) == FALSE

\* Faulty variant: every sub-command is run detached.
is_async_always(sub) == TRUE

is_async(sub) == sub.async

\* list->completed_recursive as the driver reads it after run_command.
sub_completed_recursive_always(S, l) == TRUE

sub_completed_recursive(S, l) == S.lists[l].completed_recursive

\* The while loop of continue_cmd_list and what follows it.
cmd_list_loop(S, l, thr) ==
    LET parent == S.lists[l].parent
    IN  IF S.ctxs[parent].args # <<>>
          THEN LET sub == Head(S.ctxs[parent].args)
                   pos == Len(S.ctxs[parent].cmd.args)
                            - Len(S.ctxs[parent].args) + 1
                   id  == Len(S.ctxs) + 1
                   S1  == [S EXCEPT
                             !.ctxs[parent].args = Tail(@),
                             !.lists[l].started =
                                Append(@, Started(S, l, id, pos, sub)),
                             !.lists[l].in_run = id]
               IN  IF is_async(sub)
                     THEN LET S2 == run_command(S1, sub, "none", 0, thr)
                          IN  cmd_list_loop(
                                [S2 EXCEPT !.lists[l].in_run = 0], l, thr)
                     ELSE LET S2 == [S1 EXCEPT
                                       !.lists[l].completed_recursive = FALSE,
                                       !.lists[l].current_valid = TRUE,
                                       !.lists[l].current = thr]
                              S3 == run_command(S2, sub, "list", l, thr)
                              S4 == [S3 EXCEPT
                                       !.lists[l].current_valid = FALSE,
                                       !.lists[l].in_run = 0,
                                       !.uaf = @ \/ S3.lists[l].freed]
                          IN  IF ~sub_completed_recursive(S4, l)
                                THEN S4
                                ELSE cmd_list_loop(S4, l, thr)
          ELSE LET st == S.lists[l].started
                   S0 == [S EXCEPT
                            !.lists[l].at_completion =
                               Append(@,
                                 [started |-> Len(st),
                                  pending |->
                                    {k \in 1..Len(st) :
                                       /\ ~st[k].cmd.async
                                       /\ S.ctxs[st[k].id].cb_calls = 0}])]
                   S1 == mp_cmd_ctx_complete(S0, parent, thr)
               IN  [S1 EXCEPT !.lists[l].freed = TRUE]

\* continue_cmd_list(list) on thread thr: one activation of the driver.
continue_cmd_list(S, l, thr) ==
    LET d  == S.lists[l].depth + 1
        S1 == [S EXCEPT !.lists[l].depth = d,
                        !.lists[l].max_depth = IF d > @ THEN d ELSE @]
        S2 == cmd_list_loop(S1, l, thr)
    IN  [S2 EXCEPT !.lists[l].depth = @ - 1]

\* cmd_list: the handler of the list command.
cmd_list(S, id, thr) ==
    LET l  == Len(S.lists) + 1
        S1 == [S EXCEPT !.ctxs[id].completed = FALSE,
                        !.ctxs[id].handler_calls = @ + 1,
                        !.lists = Append(@, NewList(id))]
    IN  continue_cmd_list(S1, l, thr)

\* cmd->def->handler(ctx)
handler(S, id, thr) ==
    IF S.ctxs[id].cmd.kind = "list" THEN cmd_list(S, id, thr)
    ELSE run_handler(S, id)

\* The MP_EXPAND_PROPERTIES loop of run_command: true when
\* mp_property_expand_string returns NULL for a string argument.
expand_fails_never(cmd) == FALSE

expand_fails(cmd) == cmd.outcome = "expand_fail"

\* Faulty variant: leaves the outstanding counter raised when queuing
\* fails.
run_command_no_restore(S, cmd, cb, priv, thr) ==
    LET id == Len(S.ctxs) + 1
        S1 == [S EXCEPT !.ctxs = Append(@, NewCtx(cmd, cb, priv)),
                        !.aborts = IF can_abort(cmd) THEN @ \cup {id} ELSE @]
    IN  IF expand_fails(cmd)
          THEN mp_cmd_ctx_complete([S1 EXCEPT !.ctxs[id].success = FALSE],
                                   id, thr)
          ELSE IF spawn_thread(cmd)
                 THEN LET S2 == [S1 EXCEPT !.outstanding_async = @ + 1]
                      IN  IF ~mp_thread_pool_queue(S2)
                            THEN mp_cmd_ctx_complete(
                                   [S2 EXCEPT !.ctxs[id].success = FALSE],
                                   id, thr)
                            ELSE [S2 EXCEPT !.jobs = @ \cup {id}]
                 ELSE LET async == exec_async(cmd)
                          S2    == handler(S1, id, thr)
                      IN  IF ~async
                            THEN mp_cmd_ctx_complete(S2, id, thr)
                            ELSE S2

\* run_command(mpctx, cmd, NULL, on_completion, on_completion_priv) on
\* thread thr.
run_command(S, cmd, cb, priv, thr) ==
    LET id == Len(S.ctxs) + 1
        S1 == [S EXCEPT !.ctxs = Append(@, NewCtx(cmd, cb, priv)),
                        !.aborts = IF can_abort(cmd) THEN @ \cup {id} ELSE @]
    IN  IF expand_fails(cmd)
          THEN mp_cmd_ctx_complete([S1 EXCEPT !.ctxs[id].success = FALSE],
                                   id, thr)
          ELSE IF spawn_thread(cmd)
                 THEN LET S2 == [S1 EXCEPT !.outstanding_async = @ + 1]
                      IN  IF ~mp_thread_pool_queue(S2)
                            THEN mp_cmd_ctx_complete(
                                   [S2 EXCEPT !.outstanding_async = @ - 1,
                                              !.ctxs[id].success = FALSE],
                                   id, thr)
                            ELSE [S2 EXCEPT !.jobs = @ \cup {id}]
                 ELSE LET async == exec_async(cmd)
                          S2    == handler(S1, id, thr)
                      IN  IF ~async
                            THEN mp_cmd_ctx_complete(S2, id, thr)
                            ELSE S2

\* mp_is_shutting_down(mpctx).
mp_is_shutting_down(S) == S.shutting_down

\* The end of run_command_on_worker_thread: mp_wakeup_core when nothing
\* is outstanding any more and the player is shutting down.
wakeup_if_last(S) ==
    IF S.outstanding_async = 0 /\ mp_is_shutting_down(S)
      THEN [S EXCEPT !.wakeups = @ + 1]
      ELSE S

\* Faulty variant: no mp_wakeup_core when the last job finishes.
run_command_on_worker_thread_nowake(S, id) ==
    LET async == exec_async(S.ctxs[id].cmd)
        S1    == handler(S, id, "worker")
        S2    == IF ~async THEN mp_cmd_ctx_complete(S1, id, "worker") ELSE S1
    IN  [S2 EXCEPT !.outstanding_async = @ - 1, !.jobs = @ \ {id}]

\* run_command_on_worker_thread(ctx): one section under the core lock, on
\* a pool thread.
run_command_on_worker_thread(S, id) ==
    LET async == exec_async(S.ctxs[id].cmd)
        S1    == handler(S, id, "worker")
        S2    == IF ~async THEN mp_cmd_ctx_complete(S1, id, "worker") ELSE S1
    IN  wakeup_if_last([S2 EXCEPT !.outstanding_async = @ - 1,
                                  !.jobs = @ \ {id}])

\* ------------------------------------------------------------------------
\* Command pipeline: actions
\* ------------------------------------------------------------------------

SetCmdState(S) ==
    /\ ctxs' = S.ctxs
    /\ lists' = S.lists
    /\ jobs' = S.jobs
    /\ outstanding_async' = S.outstanding_async
    /\ aborts' = S.aborts
    /\ uaf' = S.uaf
    /\ shutting_down' = S.shutting_down
    /\ wakeups' = S.wakeups

\* The core thread runs a command that allocates n contexts, with a
\* continuation of the submitter.
Submit(n) ==
    /\ Len(ctxs) + n <= MaxCtx
    /\ \E cmd \in CmdsBySize[n] :
          SetCmdState(run_command(CmdState, cmd, "top", 0, "core"))
    /\ UNCHANGED <<hookVars, auxVars, propVars, match_call>>
    /\ UNCHANGED lockVars

\* A pool thread gets the core lock and runs a queued command.
WorkerRun(id) ==
    /\ id \in jobs
    /\ SetCmdState(run_command_on_worker_thread(CmdState, id))
    /\ UNCHANGED <<hookVars, auxVars, propVars, match_call>>
    /\ UNCHANGED lockVars

CmdNext ==
    \/ \E n \in 1..MaxCtx : Submit(n)
    \/ \E id \in 1..MaxCtx : WorkerRun(id)

\* HookInit is the state after construction of both parts.
CmdSpec == HookInit /\ [][CmdNext]_vars

\* The core thread runs one list of leaf sub-commands on a pipeline that
\* has run nothing yet.
SubmitList ==
    /\ ctxs = <<>>
    /\ \E cmd \in FlatLists :
          SetCmdState(run_command(CmdState, cmd, "top", 0, "core"))
    /\ UNCHANGED <<hookVars, auxVars, propVars, match_call>>
    /\ UNCHANGED lockVars

ListNext ==
    \/ SubmitList
    \/ \E id \in 1..(MaxSubs + 1) : WorkerRun(id)

ListSpec == HookInit /\ [][ListNext]_vars

\* ------------------------------------------------------------------------
\* Command pipeline: properties
\* ------------------------------------------------------------------------

CtxIds == 1..Len(ctxs)

\* The context failed before its handler ran: property expansion failed, or
\* the worker pool refused the job.
EarlyFailure(id) ==
    /\ ~ctxs[id].success
    /\ ctxs[id].handler_calls = 0

\* C10: every command context run_command creates is completed exactly
\* once, whatever its execution mode (run to completion, exec_async list,
\* spawned on a worker) and on both early-failure paths (property expansion
\* failure, worker-pool submission failure): mp_cmd_ctx_complete is never
\* called twice on a context, the completion continuation runs once per
\* completion and never on a destroyed context, the context is destroyed
\* exactly when it is completed, and once no job is left on the pool every
\* context has been completed.
C10_CompletedExactlyOnce ==
    /\ ~uaf
    /\ \A id \in CtxIds :
          /\ ctxs[id].calls <= 1
          /\ ctxs[id].cb_calls =
                (IF ctxs[id].on_completion = "none" THEN 0 ELSE ctxs[id].calls)
          /\ ctxs[id].freed <=> ctxs[id].calls = 1
          /\ ctxs[id].calls = 1 => ctxs[id].completed
    /\ jobs = {} => \A id \in CtxIds : ctxs[id].calls = 1

\* A list has completed after a sub-command of it ran on the worker pool
\* and another context failed early.
C10_Witness ==
    /\ jobs = {}
    /\ \E l, w, f \in CtxIds :
          /\ ctxs[l].cmd.kind = "list" /\ ctxs[l].calls = 1
          /\ ctxs[l].on_completion = "top"
          /\ ctxs[w].cmd.kind = "worker" /\ ctxs[w].success
          /\ ctxs[w].on_completion = "list" /\ ctxs[w].calls = 1
          /\ EarlyFailure(f) /\ ctxs[f].calls = 1

\* ------------------------------------------------------------------------
\* List driver: properties
\* ------------------------------------------------------------------------

ListIds == 1..Len(lists)

\* Number of sub-commands of list l as declared.
NumSubs(l) == Len(ctxs[lists[l].parent].cmd.args)

\* C11: the sub-commands of a list are started in declaration order (the
\* k-th one started is the k-th one declared), and a sub-command is
\* started only when every synchronous sub-command started before it has
\* signalled completion, so at most the last one started is a synchronous
\* sub-command still running (on the pool or as a list of its own).
C11_SubCommandsInOrder ==
    \A l \in ListIds :
        LET st == lists[l].started
        IN  /\ Len(st) <= NumSubs(l)
            /\ \A k \in 1..Len(st) :
                  /\ st[k].pos = k
                  /\ st[k].cmd = ctxs[lists[l].parent].cmd.args[k]
                  /\ ctxs[st[k].id].cmd = st[k].cmd
                  /\ st[k].prev_done
                  /\ (~st[k].cmd.async /\ ctxs[st[k].id].calls = 0)
                        => k = Len(st)

\* Three synchronous sub-commands: the first completed inline, the second
\* ran on the worker pool, and the third was started after that.
C11_Witness ==
    \E l \in ListIds :
        LET st == lists[l].started
        IN  /\ Len(st) = 3
            /\ \A k \in 1..3 : ~st[k].cmd.async
            /\ st[1].cmd.kind = "sync"
            /\ st[2].cmd.kind = "worker"
            /\ ctxs[st[2].id].handler_calls = 1
            /\ ctxs[st[2].id].calls = 1

\* The sub-command started as the k-th one of list l failed: it was
\* completed with success false.
SubFailed(l, k) ==
    LET e == lists[l].started[k]
    IN  ctxs[e.id].calls = 1 /\ ~ctxs[e.id].success

\* The handler of context id has run, or the context failed before its
\* handler could run, or it waits on the worker pool for its handler.
Executed(id) ==
    \/ ctxs[id].handler_calls = 1
    \/ EarlyFailure(id) /\ ctxs[id].calls = 1
    \/ id \in jobs

\* C12: a failing synchronous sub-command never stops the list: once the
\* k-th sub-command has failed and it is not the last one declared, the
\* next one has been started and executed; in a list of three synchronous
\* sub-commands whose second one fails the third one is executed, and once
\* the pool is empty its handler has run unless it failed early itself.
C12_FailureDoesNotStopList ==
    \A l \in ListIds :
        LET st == lists[l].started
        IN  \A k \in 1..Len(st) :
              (~st[k].cmd.async /\ SubFailed(l, k) /\ k < NumSubs(l)) =>
                  /\ Len(st) >= k + 1
                  /\ Executed(st[k + 1].id)
                  /\ jobs = {} =>
                        \/ ctxs[st[k + 1].id].handler_calls = 1
                        \/ EarlyFailure(st[k + 1].id)

\* Three synchronous sub-commands; the handler of the second one failed
\* and the handler of the third one has run.
C12_Witness ==
    \E l \in ListIds :
        LET st == lists[l].started
        IN  /\ NumSubs(l) = 3 /\ Len(st) = 3
            /\ \A k \in 1..3 : ~st[k].cmd.async
            /\ SubFailed(l, 2)
            /\ ctxs[st[2].id].handler_calls = 1
            /\ ctxs[st[3].id].handler_calls = 1
            /\ ctxs[st[3].id].cmd.outcome = "ok"

\* C13: when a synchronous sub-command of a list has failed, the list
\* command itself is completed with success false.
C13_ParentReportsFailure ==
    \A l \in ListIds :
        LET st == lists[l].started
            parent == ctxs[lists[l].parent]
        IN  (/\ parent.calls = 1
             /\ \E k \in 1..Len(st) : ~st[k].cmd.async /\ SubFailed(l, k))
              => ~parent.success

\* Synchronous sub-commands of list l whose completion was signalled to
\* the list.
SyncDone(l) ==
    {k \in 1..Len(lists[l].started) :
        /\ ~lists[l].started[k].cmd.async
        /\ ctxs[lists[l].started[k].id].cb_calls = 1}

\* C14: there is never more than one activation of continue_cmd_list for
\* a list (and none between two steps); the completion continuation calls
\* the driver only for completions that happen outside the run_command
\* call that started the sub-command, once for each of them, so for a list
\* whose sub-commands all complete inline the driver is never called again.
C14_DriverNotReentered ==
    \A l \in ListIds :
        /\ lists[l].max_depth <= 1
        /\ lists[l].depth = 0
        /\ lists[l].resumed_inline = 0
        /\ lists[l].resumed + lists[l].inline_completions
              = Cardinality(SyncDone(l))
        /\ lists[l].inline_completions = Cardinality(SyncDone(l))
              => lists[l].resumed = 0

\* A list of three synchronous sub-commands that all completed inline has
\* run to its end in one activation of the driver.
C14_Witness ==
    \E l \in ListIds :
        /\ NumSubs(l) = 3
        /\ Cardinality(SyncDone(l)) = 3
        /\ lists[l].inline_completions = 3
        /\ lists[l].max_depth = 1
        /\ lists[l].resumed = 0
        /\ ctxs[lists[l].parent].calls = 1

\* C15: a sub-command flagged asynchronous is run without a completion
\* continuation and the driver does not wait for it: in the same step the
\* next sub-command is started or, if it was the last one, the parent is
\* completed, whether or not the asynchronous sub-command has completed;
\* when it completes later on the pool, no list changes and no other
\* context is completed.
C15_AsyncSubNotAwaited ==
    /\ \A l \in ListIds :
          LET st == lists[l].started
          IN  \A k \in 1..Len(st) :
                st[k].cmd.async =>
                    /\ ctxs[st[k].id].on_completion = "none"
                    /\ k < NumSubs(l) => Len(st) >= k + 1
                    /\ k = NumSubs(l) => ctxs[lists[l].parent].calls = 1
    /\ \A id \in jobs :
          ctxs[id].on_completion = "none" =>
              LET S == run_command_on_worker_thread(CmdState, id)
              IN  /\ S.lists = lists
                  /\ \A j \in CtxIds \ {id} : S.ctxs[j] = ctxs[j]
                  /\ S.ctxs[id].calls = 1

\* The parent of a list has completed while an asynchronous sub-command of
\* it is still on the worker pool, and a sub-command declared after that
\* one was started.
C15_Witness ==
    \E l \in ListIds :
        LET st == lists[l].started
        IN  /\ ctxs[lists[l].parent].calls = 1
            /\ \E k \in 1..Len(st) :
                  /\ st[k].cmd.async
                  /\ st[k].id \in jobs
                  /\ k < Len(st)

\* ------------------------------------------------------------------------
\* run_command: failure paths and the abort registry
\* ------------------------------------------------------------------------

\* Leaf commands whose property expansion fails.
ExpandFailCmds == {c \in LeafCmds : c.outcome = "expand_fail"}

\* C16: a command whose property expansion fails is completed as failed
\* inside run_command: its continuation has run with success false, its
\* handler was never invoked, it was not queued on the worker pool (jobs
\* and the outstanding counter are as before) and its abort entry, which
\* run_command had registered, is no longer in the registry.
C16_ExpansionFailureShortCircuits ==
    /\ \A cmd \in ExpandFailCmds : \A cb \in {"top", "none"} :
          LET S  == run_command(CmdState, cmd, cb, 0, "core")
              id == Len(ctxs) + 1
          IN  /\ Len(S.ctxs) = id
              /\ S.ctxs[id].calls = 1
              /\ S.ctxs[id].cb_calls = (IF cb = "top" THEN 1 ELSE 0)
              /\ ~S.ctxs[id].success
              /\ S.ctxs[id].handler_calls = 0
              /\ S.jobs = jobs
              /\ S.outstanding_async = outstanding_async
              /\ S.aborts = aborts
              /\ id \notin S.aborts
    /\ \A id \in CtxIds :
          ctxs[id].cmd.outcome = "expand_fail" =>
              /\ ctxs[id].calls = 1
              /\ ~ctxs[id].success
              /\ ctxs[id].handler_calls = 0
              /\ id \notin jobs
              /\ id \notin aborts

\* A worker command with an abort entry failed in property expansion while
\* the pool had room for it.
C16_Witness ==
    /\ Len(ctxs) = 1
    /\ ctxs[1].cmd.kind = "worker"
    /\ ctxs[1].cmd.outcome = "expand_fail"
    /\ ctxs[1].abort
    /\ ctxs[1].cb_calls = 1
    /\ jobs = {}

\* Worker commands that get past property expansion.
SpawnCmds == {c \in LeafCmds : spawn_thread(c) /\ ~expand_fails(c)}

\* C17: when the worker pool refuses a spawn_thread command, run_command
\* completes it as failed before returning: the continuation has run with
\* success false, the handler was not invoked, nothing was queued, and the
\* outstanding counter has the value it had before the call.  When the
\* pool takes the job the command is pending and counted.
C17_QueueFailureCompletesAsFailed ==
    \A cmd \in SpawnCmds : \A cb \in {"top", "none"} :
        LET S  == run_command(CmdState, cmd, cb, 0, "core")
            id == Len(ctxs) + 1
        IN  IF ~mp_thread_pool_queue(CmdState)
              THEN /\ S.ctxs[id].calls = 1
                   /\ S.ctxs[id].cb_calls = (IF cb = "top" THEN 1 ELSE 0)
                   /\ ~S.ctxs[id].success
                   /\ S.ctxs[id].handler_calls = 0
                   /\ S.jobs = jobs
                   /\ S.outstanding_async = outstanding_async
                   /\ S.aborts = aborts
              ELSE /\ S.ctxs[id].calls = 0
                   /\ S.ctxs[id].handler_calls = 0
                   /\ S.jobs = jobs \cup {id}
                   /\ S.outstanding_async = outstanding_async + 1

\* The pool is full and a worker command that it refused has been
\* completed as failed without its handler.
C17_Witness ==
    /\ Cardinality(jobs) = PoolSize
    /\ outstanding_async = PoolSize
    /\ \E id \in CtxIds :
          /\ spawn_thread(ctxs[id].cmd)
          /\ ~expand_fails(ctxs[id].cmd)
          /\ ctxs[id].calls = 1
          /\ ~ctxs[id].success
          /\ ctxs[id].handler_calls = 0

\* Contexts with an abort entry that have not been completed.
PendingAborts == {id \in CtxIds : ctxs[id].abort /\ ctxs[id].calls = 0}

\* C18: a context has an abort entry exactly when its command definition
\* sets can_abort, and between two steps the registry holds exactly the
\* entries of the contexts that are not completed yet: run_command
\* registers the entry before the command is queued or run, and every
\* completion (on the pool, after a failed expansion, after a refused
\* job) removes it.
C18_AbortRegistryTracksPending ==
    /\ \A id \in CtxIds : ctxs[id].abort <=> can_abort(ctxs[id].cmd)
    /\ aborts = PendingAborts
    /\ \A cmd \in LeafCmds :
          LET S  == run_command(CmdState, cmd, "top", 0, "core")
              id == Len(ctxs) + 1
          IN  /\ S.ctxs[id].abort <=> can_abort(cmd)
              /\ id \in S.aborts <=> (can_abort(cmd) /\ S.ctxs[id].calls = 0)
              /\ id \in S.jobs => id \in S.aborts
              /\ S.aborts \ {id} = aborts
    /\ \A id \in jobs :
          LET S == run_command_on_worker_thread(CmdState, id)
          IN  /\ id \in aborts
              /\ S.ctxs[id].calls = 1
              /\ id \notin S.aborts

\* One worker command waits on the pool with its entry registered, one has
\* run on the pool and one failed early; the entries of those two are gone.
C18_Witness ==
    \E p, d, f \in CtxIds :
        /\ aborts = {p}
        /\ p \in jobs
        /\ ctxs[d].abort /\ ctxs[d].handler_calls = 1 /\ ctxs[d].calls = 1
        /\ ctxs[f].abort /\ EarlyFailure(f) /\ ctxs[f].calls = 1

\* ------------------------------------------------------------------------
\* Core lock: worker threads step by step
\* ------------------------------------------------------------------------

\* CmdSpec and ListSpec take every section that runs under the core lock
\* as one step.  Here the pool threads take and release the lock as
\* run_command_on_worker_thread and cmd_subprocess do, and the core thread
\* gives the lock up between commands.

\* Commands submitted here: handlers that succeed or fail, on the core
\* thread or on the pool, cmd_subprocess with and without a program name,
\* and lists of such commands.
LockLeafs ==
    [kind : {"worker", "subprocess"}, async : {FALSE},
     outcome : {"ok", "fail"}, args : {<<>>}]
      \cup [kind : {"sync"}, async : {FALSE}, outcome : {"ok"}, args : {<<>>}]

RECURSIVE LockArgs(_)
LockArgs(n) ==
    IF n = 0 THEN {<<>>}
    ELSE {<<c>> \o rest : c \in LockLeafs, rest \in LockArgs(n - 1)}

LockCmdsBySize ==
    [n \in 1..MaxCtx |->
        (IF n = 1 THEN LockLeafs ELSE {})
          \cup {ListCmd(FALSE, subs) : subs \in LockArgs(n - 1)}]

\* cmd_subprocess gets as far as mp_subprocess: a program name is given.
RunsSubprocess(id) ==
    ctxs[id].cmd.kind = "subprocess" /\ ctxs[id].cmd.outcome = "ok"

\* The core thread, holding the core lock, runs a command.
LockSubmit(n) ==
    /\ lock = CoreThread
    /\ Len(ctxs) + n <= MaxCtx
    /\ \E cmd \in LockCmdsBySize[n] :
          SetCmdState(run_command(CmdState, cmd, "top", 0, "core"))
    /\ UNCHANGED lockVars
    /\ UNCHANGED <<hookVars, auxVars, propVars, match_call>>

\* The core thread waits for events: the dispatch queue lets others in.
CoreUnlock ==
    /\ lock = CoreThread
    /\ lock' = NoThread
    /\ UNCHANGED <<ctxs, lists, jobs, outstanding_async, aborts, uaf,
                   shutting_down, wakeups, wpc, unlocked>>
    /\ UNCHANGED <<hookVars, auxVars, propVars, match_call>>

CoreLock ==
    /\ lock = NoThread
    /\ lock' = CoreThread
    /\ UNCHANGED <<ctxs, lists, jobs, outstanding_async, aborts, uaf,
                   shutting_down, wakeups, wpc, unlocked>>
    /\ UNCHANGED <<hookVars, auxVars, propVars, match_call>>

\* run_command_on_worker_thread: mp_core_lock.
WorkerLock(id) ==
    /\ id \in jobs
    /\ wpc[id] = "idle"
    /\ lock = NoThread
    /\ lock' = PoolThread(id)
    /\ wpc' = [wpc EXCEPT ![id] = "locked"]
    /\ UNCHANGED <<ctxs, lists, jobs, outstanding_async, aborts, uaf,
                   shutting_down, wakeups, unlocked>>
    /\ UNCHANGED <<hookVars, auxVars, propVars, match_call>>

\* run_command_on_worker_thread: the handler.  cmd_subprocess with a
\* program name runs up to mp_core_unlock and blocks in mp_subprocess;
\* every other handler returns, and the thread completes the command,
\* lowers the outstanding counter and releases the lock.
WorkerHandler(id) ==
    /\ id \in jobs
    /\ wpc[id] = "locked"
    /\ unlocked' = (unlocked \/ lock # PoolThread(id))
    /\ lock' = NoThread
    /\ IF RunsSubprocess(id)
         THEN /\ wpc' = [wpc EXCEPT ![id] = "subprocess"]
              /\ UNCHANGED <<ctxs, lists, jobs, outstanding_async, aborts,
                             uaf, shutting_down, wakeups>>
         ELSE /\ wpc' = [wpc EXCEPT ![id] = "done"]
              /\ SetCmdState(run_command_on_worker_thread(CmdState, id))
    /\ UNCHANGED <<hookVars, auxVars, propVars, match_call>>

\* Faulty variant: goes on without taking the lock again.
WorkerRelock_nolock(id) ==
    /\ id \in jobs
    /\ wpc[id] = "subprocess"
    /\ wpc' = [wpc EXCEPT ![id] = "relocked"]
    /\ UNCHANGED <<ctxs, lists, jobs, outstanding_async, aborts, uaf,
                   shutting_down, wakeups, lock, unlocked>>
    /\ UNCHANGED <<hookVars, auxVars, propVars, match_call>>

\* cmd_subprocess: mp_subprocess has returned, mp_core_lock.
WorkerRelock(id) ==
    /\ id \in jobs
    /\ wpc[id] = "subprocess"
    /\ lock = NoThread
    /\ lock' = PoolThread(id)
    /\ wpc' = [wpc EXCEPT ![id] = "relocked"]
    /\ UNCHANGED <<ctxs, lists, jobs, outstanding_async, aborts, uaf,
                   shutting_down, wakeups, unlocked>>
    /\ UNCHANGED <<hookVars, auxVars, propVars, match_call>>

\* cmd_subprocess writes cmd->result and returns; the thread completes the
\* command, lowers the outstanding counter and releases the lock.
WorkerFinish(id) ==
    /\ id \in jobs
    /\ wpc[id] = "relocked"
    /\ unlocked' = (unlocked \/ lock # PoolThread(id))
    /\ lock' = NoThread
    /\ wpc' = [wpc EXCEPT ![id] = "done"]
    /\ SetCmdState(run_command_on_worker_thread(CmdState, id))
    /\ UNCHANGED <<hookVars, auxVars, propVars, match_call>>

LockNext ==
    \/ \E n \in 1..MaxCtx : LockSubmit(n)
    \/ CoreUnlock
    \/ CoreLock
    \/ \E id \in 1..MaxCtx : WorkerLock(id)
    \/ \E id \in 1..MaxCtx : WorkerHandler(id)
    \/ \E id \in 1..MaxCtx : WorkerRelock(id)
    \/ \E id \in 1..MaxCtx : WorkerFinish(id)

LockSpec == HookInit /\ [][LockNext]_vars

\* Pool threads that are inside a section protected by the core lock.
InsideLock == {id \in 1..MaxCtx : wpc[id] \in {"locked", "relocked"}}

\* C19: handler bodies and completions of worker commands run on a thread
\* that holds the core lock (unlocked is never set); a pool thread inside a
\* protected section is the holder of the lock, so no two threads are
\* inside at once and none is inside while the core thread holds it; the
\* lock is given up inside a handler only by cmd_subprocess around
\* mp_subprocess, before the command is completed or its result written,
\* and the result is written after the lock was taken again; the core
\* thread returns from run_command with the job queued and the handler
\* not run.
C19_CoreLockHeld ==
    /\ ~unlocked
    /\ \A id \in InsideLock : lock = PoolThread(id)
    /\ Cardinality(InsideLock) <= 1
    /\ lock.thread = "pool" => lock.job \in InsideLock
    /\ \A id \in 1..MaxCtx :
          /\ wpc[id] # "idle" => id \in CtxIds /\ spawn_thread(ctxs[id].cmd)
          /\ wpc[id] \in {"subprocess", "relocked"} =>
                /\ RunsSubprocess(id)
                /\ id \in jobs
                /\ ctxs[id].handler_calls = 0
                /\ ctxs[id].calls = 0
          /\ wpc[id] = "subprocess" => lock # PoolThread(id)
          /\ wpc[id] = "done" <=>
                (id \in CtxIds /\ ctxs[id].handler_calls = 1
                   /\ spawn_thread(ctxs[id].cmd))
    /\ lock = CoreThread =>
          \A cmd \in LockLeafs :
              (spawn_thread(cmd) /\ mp_thread_pool_queue(CmdState)) =>
                  LET S  == run_command(CmdState, cmd, "top", 0, "core")
                      id == Len(ctxs) + 1
                  IN  /\ id \in S.jobs
                      /\ S.ctxs[id].handler_calls = 0
                      /\ S.ctxs[id].calls = 0

\* cmd_subprocess holds the lock again after mp_subprocess, its result not
\* written yet, and the core thread has run a later command in between.
C19_Witness ==
    \E id \in 1..MaxCtx :
        /\ wpc[id] = "relocked"
        /\ lock = PoolThread(id)
        /\ \E j \in CtxIds :
              j > id /\ ctxs[j].on_completion = "top" /\ ctxs[j].calls = 1

\* ------------------------------------------------------------------------
\* Properties: mp_property_do
\* ------------------------------------------------------------------------

\* Property names used by callers.
PropNames == {"volume", "options/volume", "pause"}

\* Actions that are not M_PROPERTY_KEY_ACTION.  An action is the tuple of
\* the action names from the outermost M_PROPERTY_KEY_ACTION to the action
\* its m_property_action_arg chain ends in.
PlainActions ==
    {"M_PROPERTY_GET", "M_PROPERTY_PRINT", "M_PROPERTY_GET_TYPE",
     "M_PROPERTY_SET", "M_PROPERTY_SWITCH", "M_PROPERTY_SET_STRING",
     "M_PROPERTY_SET_NODE", "M_PROPERTY_MULTIPLY"}

RECURSIVE PropActions(_)
PropActions(depth) ==
    {<<a>> : a \in PlainActions}
      \cup (IF depth = 0 THEN {}
            ELSE {<<"M_PROPERTY_KEY_ACTION">> \o inner :
                     inner \in PropActions(depth - 1)})

\* Results of m_property_do.
PropResults ==
    {"M_PROPERTY_OK", "M_PROPERTY_ERROR", "M_PROPERTY_UNAVAILABLE",
     "M_PROPERTY_NOT_IMPLEMENTED", "M_PROPERTY_UNKNOWN"}

\* Faulty variant: does not look into M_PROPERTY_KEY_ACTION.
is_property_set_nokey(action) ==
    Head(action) \in {"M_PROPERTY_SET", "M_PROPERTY_SWITCH",
                      "M_PROPERTY_SET_STRING", "M_PROPERTY_SET_NODE",
                      "M_PROPERTY_MULTIPLY"}

\* is_property_set(action, val); key->action and key->arg are the tail.
RECURSIVE is_property_set(_)
is_property_set(action) ==
    IF Head(action) \in {"M_PROPERTY_SET", "M_PROPERTY_SWITCH",
                         "M_PROPERTY_SET_STRING", "M_PROPERTY_SET_NODE",
                         "M_PROPERTY_MULTIPLY"}
      THEN TRUE
      ELSE IF Head(action) = "M_PROPERTY_KEY_ACTION"
             THEN is_property_set(Tail(action))
             ELSE FALSE

\* Faulty variant: no mp_notify_property call.
mp_property_do_silent_quiet(name, action, r) == [r |-> r, notified |-> <<>>]

\* mp_property_do_silent, given the result r of m_property_do:
\* [r, notified], notified being the mp_notify_property calls made.
mp_property_do_silent(name, action, r) ==
    [r |-> r,
     notified |-> IF r = "M_PROPERTY_OK" /\ is_property_set(action)
                    THEN <<name>> ELSE <<>>]

\* mp_property_do: mp_property_do_silent and a log line.
mp_property_do(name, action, r) == mp_property_do_silent(name, action, r)

\* A caller runs a property action; m_property_do returns r.
PropertyDo(name, action, r) ==
    /\ LET res == mp_property_do(name, action, r)
       IN  prop_call' = [name |-> name, action |-> action, r |-> res.r,
                         notified |-> res.notified]
    /\ UNCHANGED <<hookVars, auxVars, cmdVars, opt_call, mp, pcall, cmd_call, match_call>>

PropNext ==
    \E name \in PropNames, action \in PropActions(MaxKeyDepth),
       r \in PropResults : PropertyDo(name, action, r)

PropSpec == HookInit /\ [][PropNext]_vars

\* The action a chain of key actions ends in.
InnerAction(action) == action[Len(action)]

\* C20: a property action of the set class (set, set-string, set-node,
\* switch, multiply, or key actions around one of them) for which
\* m_property_do returns M_PROPERTY_OK makes exactly one
\* mp_notify_property call, with the name the caller passed.
C20_SetNotifies ==
    (/\ prop_call.r = "M_PROPERTY_OK"
     /\ InnerAction(prop_call.action) \in
           {"M_PROPERTY_SET", "M_PROPERTY_SET_STRING", "M_PROPERTY_SET_NODE",
            "M_PROPERTY_SWITCH", "M_PROPERTY_MULTIPLY"})
      => prop_call.notified = <<prop_call.name>>

\* A successful switch wrapped in a key action, on an option name.
C20_Witness ==
    /\ prop_call.name = "options/volume"
    /\ prop_call.action = <<"M_PROPERTY_KEY_ACTION", "M_PROPERTY_SWITCH">>
    /\ prop_call.r = "M_PROPERTY_OK"
    /\ prop_call.notified = <<"options/volume">>

\* ------------------------------------------------------------------------
\* The option bridge: mp_on_set_option
\* ------------------------------------------------------------------------

M_OPT_INVALID == -3

OptNames == {"volume", "pause", "fullscreen"}

\* What m_property_list_find(cmd->properties, name) finds for an option
\* name after command_init: a property of mp_properties_base ("manual"), a
\* property command_init made from the option (is_option, "option"), or
\* nothing (an M_OPT_NOPROP option, "none").
PropKinds == {"manual", "option", "none"}

\* Results of m_property_do(name, M_PROPERTY_GET_TYPE): a name that is not
\* in the list gives M_PROPERTY_UNKNOWN; a handler returns
\* M_PROPERTY_UNKNOWN only below M_PROPERTY_KEY_ACTION.
TypeResults(prop) ==
    CASE prop = "none"   -> {"M_PROPERTY_UNKNOWN"}
      [] prop = "option" -> {"M_PROPERTY_OK"}
      [] OTHER           -> PropResults \ {"M_PROPERTY_UNKNOWN"}

\* Results of m_property_do(name, M_PROPERTY_SET) for a property in the list.
SetResults == PropResults \ {"M_PROPERTY_UNKNOWN"}

\* Results of m_config_set_option_raw_direct.
DirectResults == {0, M_OPT_INVALID}

\* Faulty variant of the direct_option label: no mp_notify_property call.
direct_option_quiet(name, r_direct) ==
    [ret |-> r_direct, notified |-> <<>>, set_called |-> FALSE,
     set_notified |-> <<>>, marked |-> FALSE, direct |-> TRUE]

\* The direct_option label of mp_on_set_option: mp_notify_property, then
\* m_config_set_option_raw_direct, whose result is returned.
direct_option(name, r_direct) ==
    [ret |-> r_direct, notified |-> <<name>>, set_called |-> FALSE,
     set_notified |-> <<>>, marked |-> FALSE, direct |-> TRUE]

\* Faulty variant: every option is written directly.
mp_on_set_option_direct(name, prop, r_type, r_set, r_direct) ==
    direct_option(name, r_direct)

\* mp_on_set_option(ctx, co, data, flags) for co->name = name.  prop is
\* what m_property_list_find finds, r_type and r_set the results of
\* m_property_do for M_PROPERTY_GET_TYPE and M_PROPERTY_SET, r_direct the
\* result of m_config_set_option_raw_direct.  The result holds the return
\* value, the mp_notify_property calls in order, whether the silent
\* M_PROPERTY_SET was made and what it notified, whether
\* m_config_mark_co_flags ran and whether the option was written directly.
mp_on_set_option(name, prop, r_type, r_set, r_direct) ==
    IF prop = "option"
      THEN direct_option(name, r_direct)
      ELSE
        LET t == mp_property_do_silent(name, <<"M_PROPERTY_GET_TYPE">>, r_type)
        IN  IF t.r = "M_PROPERTY_UNKNOWN"
              THEN [direct_option(name, r_direct)
                      EXCEPT !.notified = t.notified \o @]
              ELSE IF t.r # "M_PROPERTY_OK"
                THEN [ret |-> M_OPT_INVALID, notified |-> t.notified,
                      set_called |-> FALSE, set_notified |-> <<>>,
                      marked |-> FALSE, direct |-> FALSE]
                ELSE
                  LET s == mp_property_do_silent(name, <<"M_PROPERTY_SET">>,
                                                 r_set)
                  IN  IF s.r # "M_PROPERTY_OK"
                        THEN [ret |-> M_OPT_INVALID,
                              notified |-> t.notified \o s.notified,
                              set_called |-> TRUE,
                              set_notified |-> s.notified,
                              marked |-> FALSE, direct |-> FALSE]
                        ELSE [ret |-> 0,
                              notified |-> t.notified \o s.notified,
                              set_called |-> TRUE,
                              set_notified |-> s.notified,
                              marked |-> TRUE, direct |-> FALSE]

\* The configuration layer sets an option; the bridge is called.
SetOption(name, prop, r_type, r_set, r_direct) ==
    /\ LET res == mp_on_set_option(name, prop, r_type, r_set, r_direct)
       IN  opt_call' = [name |-> name, prop |-> prop, r_type |-> r_type,
                        r_set |-> r_set, r_direct |-> r_direct,
                        ret |-> res.ret, notified |-> res.notified,
                        set_called |-> res.set_called,
                        set_notified |-> res.set_notified,
                        marked |-> res.marked, direct |-> res.direct]
    /\ UNCHANGED <<hookVars, auxVars, cmdVars, prop_call, mp, pcall, cmd_call, match_call>>

OptNext ==
    \E name \in OptNames, prop \in PropKinds, r_set \in SetResults,
       r_direct \in DirectResults :
      \E r_type \in TypeResults(prop) :
        SetOption(name, prop, r_type, r_set, r_direct)

OptSpec == HookInit /\ [][OptNext]_vars

\* C21: a M_PROPERTY_SET made through mp_property_do_silent by the option
\* bridge calls mp_notify_property with the option's name exactly when the
\* set returns M_PROPERTY_OK, as mp_property_do does; a failing set
\* notifies nothing.
C21_SilentSetNotifies ==
    opt_call.set_called =>
      opt_call.set_notified =
        (IF opt_call.r_set = "M_PROPERTY_OK" THEN <<opt_call.name>> ELSE <<>>)

\* A successful silent set of "volume" that notified "volume".
C21_Witness ==
    /\ opt_call.name = "volume"
    /\ opt_call.set_called
    /\ opt_call.r_set = "M_PROPERTY_OK"
    /\ opt_call.set_notified = <<"volume">>

\* C21 as stated: a set through the silent variant notifies nothing.
C21_SilentSetNoNotification ==
    opt_call.set_called => opt_call.set_notified = <<>>

\* C22: an option change the bridge carries out, by a successful property
\* set or by the direct write, calls mp_notify_property exactly once, with
\* the option's name.
C22_BridgeNotifies ==
    (opt_call.direct \/ (opt_call.set_called /\ opt_call.ret = 0))
      => opt_call.notified = <<opt_call.name>>

\* A direct write of "fullscreen", which has no manual property.
C22_Witness ==
    /\ opt_call.name = "fullscreen"
    /\ opt_call.prop = "option"
    /\ opt_call.direct
    /\ opt_call.notified = <<"fullscreen">>

\* C23: the option is written directly exactly when no manual property with
\* its name exists (the property is made from the option, or there is
\* none); the property's set is called only for a manual property, and for
\* every manual property whose type can be fetched.  On the property route
\* a failure returns M_OPT_INVALID with no m_config_mark_co_flags and no
\* direct write; success marks the flags and returns 0.
C23_BridgeRoutes ==
    /\ opt_call.direct <=> (opt_call.name # "" /\ opt_call.prop # "manual")
    /\ opt_call.set_called => opt_call.prop = "manual"
    /\ (opt_call.prop = "manual" /\ opt_call.r_type = "M_PROPERTY_OK")
         => opt_call.set_called
    /\ (opt_call.prop = "manual"
          /\ (opt_call.r_type # "M_PROPERTY_OK"
                \/ opt_call.r_set # "M_PROPERTY_OK"))
         => (/\ opt_call.ret = M_OPT_INVALID
             /\ ~opt_call.marked
             /\ ~opt_call.direct)
    /\ (opt_call.set_called /\ opt_call.r_set = "M_PROPERTY_OK")
         => (opt_call.ret = 0 /\ opt_call.marked)
    /\ opt_call.direct => (opt_call.ret = opt_call.r_direct /\ ~opt_call.marked)

\* A manual property whose set fails.
C23_Witness ==
    /\ opt_call.prop = "manual"
    /\ opt_call.set_called
    /\ opt_call.r_set = "M_PROPERTY_UNAVAILABLE"
    /\ opt_call.ret = M_OPT_INVALID
    /\ ~opt_call.marked
    /\ ~opt_call.direct

\* ------------------------------------------------------------------------
\* Option-backed properties: pause, volume and framedrop
\* ------------------------------------------------------------------------

\* Values of the flag option pause (an int in struct MPOpts).
Flags == {0, 1}

\* Values of the option volume.
Volumes == {0, 100}

\* Values of the choice option framedrop (no, vo).
Choices == {0, 1}

OptValues(name) ==
    CASE name = "pause"     -> Flags
      [] name = "framedrop" -> Choices
      [] OTHER              -> Volumes

\* The options m_config_get_co finds.  pause and volume have a property in
\* mp_properties_base; the property framedrop is made by command_init.
PlayerOpts == {"pause", "volume", "framedrop"}

\* The type of the option, which M_PROPERTY_GET_TYPE stores.
OptType(name) ==
    CASE name = "pause"     -> "m_option_type_flag"
      [] name = "framedrop" -> "m_option_type_choice"
      [] OTHER              -> "m_option_type_float"

\* mp_property_generic_option(ctx, prop, action, arg) for prop->name = name
\* in MPContext S: [r, S, val], val being what M_PROPERTY_GET stores.
\* r_direct is the result of m_config_set_option_raw_direct, which writes
\* the option when it does not fail.
mp_property_generic_option(S, name, action, arg, r_direct) ==
    IF name \notin PlayerOpts
      THEN [r |-> "M_PROPERTY_UNKNOWN", S |-> S, val |-> 0]
      ELSE
        CASE action = "M_PROPERTY_GET_TYPE" ->
               [r |-> "M_PROPERTY_OK", S |-> S, val |-> 0]
          [] action = "M_PROPERTY_GET" ->
               [r |-> "M_PROPERTY_OK", S |-> S, val |-> S[name]]
          [] action = "M_PROPERTY_SET" ->
               IF r_direct < 0
                 THEN [r |-> "M_PROPERTY_ERROR", S |-> S, val |-> 0]
                 ELSE [r |-> "M_PROPERTY_OK",
                       S |-> [S EXCEPT ![name] = arg], val |-> 0]
          [] OTHER ->
               [r |-> "M_PROPERTY_NOT_IMPLEMENTED", S |-> S, val |-> 0]

\* set_pause_state(mpctx, user_pause).
set_pause_state(S, user_pause) == [S EXCEPT !.pause = user_pause]

\* Faulty variant: during playback the set is acknowledged but not made.
mp_property_pause_noset(S, action, arg, r_direct) ==
    IF S.playback_initialized /\ action = "M_PROPERTY_SET"
      THEN [r |-> "M_PROPERTY_OK", S |-> S, val |-> 0]
      ELSE mp_property_generic_option(S, "pause", action, arg, r_direct)

mp_property_pause(S, action, arg, r_direct) ==
    IF S.playback_initialized /\ action = "M_PROPERTY_SET"
      THEN [r |-> "M_PROPERTY_OK", S |-> set_pause_state(S, arg), val |-> 0]
      ELSE mp_property_generic_option(S, "pause", action, arg, r_direct)

mp_property_volume(S, action, arg, r_direct) ==
    IF action \in {"M_PROPERTY_GET_CONSTRICTED_TYPE", "M_PROPERTY_PRINT"}
      THEN [r |-> "M_PROPERTY_OK", S |-> S, val |-> S.volume]
      ELSE mp_property_generic_option(S, "volume", action, arg, r_direct)

\* m_property_do(log, cmd->properties, name, action, arg, ctx) for the
\* actions the handlers take themselves.
m_property_do(S, name, action, arg, r_direct) ==
    CASE name = "pause"  -> mp_property_pause(S, action, arg, r_direct)
      [] name = "volume" -> mp_property_volume(S, action, arg, r_direct)
      [] name = "framedrop" ->
           mp_property_generic_option(S, name, action, arg, r_direct)
      [] OTHER -> [r |-> "M_PROPERTY_UNKNOWN", S |-> S, val |-> 0]

\* The names a caller may ask for; "nosuch" is not a property.
PlayerProps == {"pause", "volume", "framedrop", "nosuch"}

\* mp_property_do(name, M_PROPERTY_SET, &value, mpctx).
PropertySet(name, value, r_direct) ==
    /\ LET res == m_property_do(mp, name, "M_PROPERTY_SET", value, r_direct)
           out == mp_property_do(name, <<"M_PROPERTY_SET">>, res.r)
       IN  /\ mp' = res.S
           /\ pcall' = [op |-> "set", name |-> name, value |-> value,
                        r_direct |-> r_direct, r |-> out.r,
                        notified |-> out.notified,
                        init |-> mp.playback_initialized]
    /\ UNCHANGED <<hookVars, auxVars, cmdVars, prop_call, opt_call, cmd_call, match_call>>

\* mp_property_do(name, M_PROPERTY_GET, &value, mpctx).
PropertyGet(name) ==
    /\ LET res == m_property_do(mp, name, "M_PROPERTY_GET", 0, 0)
           out == mp_property_do(name, <<"M_PROPERTY_GET">>, res.r)
       IN  /\ mp' = res.S
           /\ pcall' = [op |-> "get", name |-> name, value |-> res.val,
                        r_direct |-> 0, r |-> out.r,
                        notified |-> out.notified,
                        init |-> mp.playback_initialized]
    /\ UNCHANGED <<hookVars, auxVars, cmdVars, prop_call, opt_call, cmd_call, match_call>>

\* Playback of a file starts or ends.
PlaybackChange ==
    /\ mp' = [mp EXCEPT !.playback_initialized = ~@]
    /\ UNCHANGED <<hookVars, auxVars, cmdVars, prop_call, opt_call, pcall, cmd_call, match_call>>

PlayerNext ==
    \/ \E name \in PlayerProps, r_direct \in DirectResults :
         \E value \in OptValues(name) : PropertySet(name, value, r_direct)
    \/ \E name \in PlayerProps : PropertyGet(name)
    \/ PlaybackChange

PlayerSpec == HookInit /\ [][PlayerNext]_vars

\* C24: a set of "pause" to true succeeds when playback is initialized and,
\* when it is not, whenever the option write is accepted; every successful
\* one calls mp_notify_property exactly once, with "pause", and a get of
\* "pause" made afterwards returns true.
C24_PauseSet ==
    (pcall.op = "set" /\ pcall.name = "pause" /\ pcall.value = 1)
      => /\ (pcall.init \/ pcall.r_direct >= 0) <=> pcall.r = "M_PROPERTY_OK"
         /\ pcall.r = "M_PROPERTY_OK"
              => /\ pcall.notified = <<"pause">>
                 /\ LET get == m_property_do(mp, "pause", "M_PROPERTY_GET",
                                             0, 0)
                    IN  get.r = "M_PROPERTY_OK" /\ get.val = 1

\* "pause" was set to true during playback.
C24_Witness ==
    /\ pcall.op = "set"
    /\ pcall.name = "pause"
    /\ pcall.value = 1
    /\ pcall.init
    /\ pcall.notified = <<"pause">>
    /\ mp.pause = 1

\* ------------------------------------------------------------------------
\* Property commands: set, add, cycle, multiply, cycle-values
\* ------------------------------------------------------------------------

PropCmds == {"set", "add", "cycle", "multiply", "cycle-values"}

\* cmd->scale_units of an add or cycle command.
ScaleUnits == {1, 2}

\* What m_property_do returns for a set-class action on name, which it
\* carries out itself by a get and a set of the property: any result for a
\* property in the list, M_PROPERTY_UNKNOWN for any other name.
ResultsFor(name) ==
    IF name \in PlayerOpts THEN PropResults ELSE {"M_PROPERTY_UNKNOWN"}

\* The results of the successive M_PROPERTY_SWITCH calls of one add or
\* cycle command: each call but the last returns M_PROPERTY_OK.
SwitchRuns(name, units) ==
    {rs \in UNION {[1..n -> ResultsFor(name)] : n \in 1..units} :
       /\ \A i \in 1..(Len(rs) - 1) : rs[i] = "M_PROPERTY_OK"
       /\ Len(rs) = units \/ rs[Len(rs)] # "M_PROPERTY_OK"}

\* The value M_PROPERTY_SWITCH moves the property to.
Switched(S, name) ==
    CASE name = "volume" -> (S.volume + 100) % 200
      [] name \in {"pause", "framedrop"} -> 1 - S[name]
      [] OTHER -> 0

\* The effect of m_property_do(name, action) on MPContext: a set-class
\* action that returns M_PROPERTY_OK stores v, anything else stores nothing.
m_property_do_effect(S, name, action, v, r) ==
    IF r = "M_PROPERTY_OK" /\ is_property_set(<<action>>)
         /\ name \in PlayerOpts
      THEN [S EXCEPT ![name] = v]
      ELSE S

\* The state of a command being run: MPContext, cmd->success, the OSD
\* messages set, the mp_notify_property calls and the completion in
\* order, the results handed to show_property_status, and whether the
\* command was dropped.
NewPropCmd(S) ==
    [S |-> S, success |-> TRUE, msgs |-> <<>>, log |-> <<>>,
     status |-> <<>>, dropped |-> FALSE]

Notified(names) ==
    [i \in 1..Len(names) |-> [ev |-> "notify", name |-> names[i]]]

\* Faulty variant: M_PROPERTY_UNAVAILABLE is not a failure.
show_property_status_lenient(C, name, r) ==
    LET C1 == [C EXCEPT !.status = Append(@, r)]
    IN  IF r = "M_PROPERTY_OK" \/ r = "M_PROPERTY_UNAVAILABLE"
          THEN C1
          ELSE IF r = "M_PROPERTY_UNKNOWN"
            THEN [C1 EXCEPT !.msgs = Append(@, <<"Unknown property", name>>),
                            !.success = FALSE]
            ELSE [C1 EXCEPT
                    !.msgs = Append(@, <<"Failed to set property", name>>),
                    !.success = FALSE]

\* show_property_status(cmd, name, r).  M_PROPERTY_OK is the only result
\* greater than 0.
show_property_status(C, name, r) ==
    LET C1 == [C EXCEPT !.status = Append(@, r)]
    IN  IF r = "M_PROPERTY_OK" \/ r = "M_PROPERTY_UNAVAILABLE"
          THEN IF r = "M_PROPERTY_UNAVAILABLE"
                 THEN [C1 EXCEPT !.success = FALSE]
                 ELSE C1
          ELSE IF r = "M_PROPERTY_UNKNOWN"
            THEN [C1 EXCEPT !.msgs = Append(@, <<"Unknown property", name>>),
                            !.success = FALSE]
            ELSE [C1 EXCEPT
                    !.msgs = Append(@, <<"Failed to set property", name>>),
                    !.success = FALSE]

\* change_property_cmd(cmd, name, action, arg); m_property_do returns r
\* and, when it succeeds, stores v.
change_property_cmd(C, name, action, v, r) ==
    LET out == mp_property_do(name, <<action>>, r)
        C1  == [C EXCEPT !.S = m_property_do_effect(@, name, action, v, r),
                         !.log = @ \o Notified(out.notified)]
    IN  show_property_status(C1, name, out.r)

\* Faulty variant: every property reacts to auto-repeat.
check_property_autorepeat_always(S, property) == TRUE

\* check_property_autorepeat(property, mpctx).
check_property_autorepeat(S, property) ==
    LET t == m_property_do(S, property, "M_PROPERTY_GET_TYPE", 0, 0)
    IN  IF t.r # "M_PROPERTY_OK"
          THEN TRUE
          ELSE OptType(property) \notin
                 {"m_option_type_flag", "m_option_type_choice"}

\* check_property_scalable(property, mpctx).
check_property_scalable(S, property) ==
    LET t == m_property_do(S, property, "M_PROPERTY_GET_TYPE", 0, 0)
    IN  IF t.r # "M_PROPERTY_OK"
          THEN TRUE
          ELSE OptType(property) \in
                 {"m_option_type_float", "m_option_type_double",
                  "m_option_type_time", "m_option_type_aspect"}

\* The loop of cmd_add_cycle from iteration i on.
RECURSIVE add_cycle_loop(_, _, _, _, _)
add_cycle_loop(C, property, i, scale_units, rs) ==
    IF i > scale_units
      THEN C
      ELSE
        LET C1 == change_property_cmd(C, property, "M_PROPERTY_SWITCH",
                                      Switched(C.S, property), rs[i])
        IN  IF ~C1.success
              THEN C1
              ELSE add_cycle_loop(C1, property, i + 1, scale_units, rs)

\* cmd_add_cycle(p) for the commands add and cycle.
cmd_add_cycle(C, property, repeated, scale_units, rs) ==
    IF repeated /\ ~check_property_autorepeat(C.S, property)
      THEN [C EXCEPT !.dropped = TRUE]
      ELSE add_cycle_loop(C, property, 1,
                          IF check_property_scalable(C.S, property)
                            THEN 1 ELSE scale_units,
                          rs)

\* cmd_set(p).
cmd_set(C, name, v, r) ==
    change_property_cmd(C, name, "M_PROPERTY_SET_STRING", v, r)

\* cmd_multiply(p).
cmd_multiply(C, name, v, r) ==
    change_property_cmd(C, name, "M_PROPERTY_MULTIPLY", v, r)

\* cmd_cycle_values(p); has_values is first < cmd->num_args, v the value of
\* the argument picked.
cmd_cycle_values(C, name, has_values, v, r) ==
    IF ~has_values
      THEN [C EXCEPT !.success = FALSE]
      ELSE
        LET t == m_property_do(C.S, name, "M_PROPERTY_GET_TYPE", 0, 0)
            tr == mp_property_do(name, <<"M_PROPERTY_GET_TYPE">>, t.r)
        IN  IF tr.r # "M_PROPERTY_OK"
              THEN show_property_status(C, name, tr.r)
              ELSE
                LET g == m_property_do(C.S, name, "M_PROPERTY_GET", 0, 0)
                    gr == mp_property_do(name, <<"M_PROPERTY_GET">>, g.r)
                IN  IF gr.r # "M_PROPERTY_OK"
                      THEN show_property_status(C, name, gr.r)
                      ELSE change_property_cmd(C, name,
                                               "M_PROPERTY_SET_STRING", v, r)

\* cmd->def->handler(ctx) for a property command.
property_handler(C, c) ==
    CASE c.cmd = "set" -> cmd_set(C, c.name, c.v, c.rs[1])
      [] c.cmd = "multiply" -> cmd_multiply(C, c.name, c.v, c.rs[1])
      [] c.cmd \in {"add", "cycle"} ->
           cmd_add_cycle(C, c.name, c.repeated, c.units, c.rs)
      [] OTHER -> cmd_cycle_values(C, c.name, c.has_values, c.v, c.rs[1])

\* mp_cmd_ctx_complete(cmd): the completion continuation is invoked.
complete_property_command(C) ==
    [C EXCEPT !.log = Append(@, [ev |-> "complete", name |-> ""])]

\* Faulty variant: the command is completed before its handler runs.
run_property_command_early(S, c) ==
    property_handler(complete_property_command(NewPropCmd(S)), c)

\* run_command for a property command: none is spawn_thread or exec_async,
\* so the handler runs and mp_cmd_ctx_complete follows.
run_property_command(S, c) ==
    complete_property_command(property_handler(NewPropCmd(S), c))

\* A property command is run.
PropCmd(c) ==
    /\ LET C == run_property_command(mp, c)
       IN  /\ mp' = C.S
           /\ cmd_call' = [cmd |-> c.cmd, name |-> c.name,
                           repeated |-> c.repeated, units |-> c.units,
                           rs |-> c.rs, v |-> c.v,
                           has_values |-> c.has_values, before |-> mp,
                           success |-> C.success, msgs |-> C.msgs,
                           log |-> C.log, status |-> C.status,
                           dropped |-> C.dropped]
    /\ UNCHANGED <<hookVars, auxVars, cmdVars, prop_call, opt_call, pcall, match_call>>

\* The commands that can be submitted: a set, multiply or cycle-values
\* with a value and one result, an add or cycle with its scale units and
\* the results of its switches.
PropCmdInputs ==
    UNION {
      {[cmd |-> cmd, name |-> name, repeated |-> FALSE, units |-> 1,
        rs |-> <<r>>, v |-> v, has_values |-> TRUE] :
          cmd \in {"set", "multiply", "cycle-values"},
          v \in OptValues(name), r \in ResultsFor(name)}
      \cup
      {[cmd |-> "cycle-values", name |-> name, repeated |-> FALSE,
        units |-> 1, rs |-> <<r>>, v |-> v, has_values |-> FALSE] :
          v \in OptValues(name), r \in ResultsFor(name)}
      \cup
      UNION {
        {[cmd |-> cmd, name |-> name, repeated |-> rep, units |-> u,
          rs |-> rs, v |-> 0, has_values |-> TRUE] :
            cmd \in {"add", "cycle"}, rep \in BOOLEAN,
            rs \in SwitchRuns(name, u)} : u \in ScaleUnits}
      : name \in PlayerProps}

PropCmdNext == \E c \in PropCmdInputs : PropCmd(c)

PropCmdSpec == HookInit /\ [][PropCmdNext]_vars

\* C25: in a property command every mp_notify_property call comes before
\* the completion continuation, which is invoked once, as the last thing
\* the command does.
C25_NotifyBeforeCompletion ==
    cmd_call.cmd # "" =>
      LET log == cmd_call.log
      IN  /\ Len(log) >= 1
          /\ log[Len(log)].ev = "complete"
          /\ \A i \in 1..(Len(log) - 1) : log[i].ev = "notify"

\* An add of 2 units to framedrop: two notifications, then the completion.
C25_Witness ==
    /\ cmd_call.cmd = "add"
    /\ cmd_call.name = "framedrop"
    /\ cmd_call.log = <<[ev |-> "notify", name |-> "framedrop"],
                        [ev |-> "notify", name |-> "framedrop"],
                        [ev |-> "complete", name |-> ""]>>

\* The OSD messages show_property_status sets for the result r.
StatusMsgs(name, r) ==
    CASE r \in {"M_PROPERTY_OK", "M_PROPERTY_UNAVAILABLE"} -> <<>>
      [] r = "M_PROPERTY_UNKNOWN" -> << <<"Unknown property", name>> >>
      [] OTHER -> << <<"Failed to set property", name>> >>

\* C28: a property command succeeds exactly when every property operation
\* whose result it reports returned M_PROPERTY_OK (and, for cycle-values,
\* it has value arguments).  A failing result ends the command:
\* M_PROPERTY_UNAVAILABLE without a message, M_PROPERTY_UNKNOWN with
\* "Unknown property", any other with "Failed to set property".  Whatever
\* the result, the command is completed.
C28_PropertyCommandStatus ==
    cmd_call.cmd # "" =>
      LET st == cmd_call.status
          noargs == cmd_call.cmd = "cycle-values" /\ ~cmd_call.has_values
      IN  /\ cmd_call.success <=>
                (~noargs /\ \A i \in 1..Len(st) : st[i] = "M_PROPERTY_OK")
          /\ \A i \in 1..(Len(st) - 1) : st[i] = "M_PROPERTY_OK"
          /\ cmd_call.msgs =
                (IF st = <<>> THEN <<>>
                 ELSE StatusMsgs(cmd_call.name, st[Len(st)]))
          /\ cmd_call.log[Len(cmd_call.log)].ev = "complete"

\* A set that failed with M_PROPERTY_UNAVAILABLE: no message.
C28_Witness ==
    /\ cmd_call.cmd = "set"
    /\ cmd_call.status = <<"M_PROPERTY_UNAVAILABLE">>
    /\ ~cmd_call.success
    /\ cmd_call.msgs = <<>>

\* C29: an add or cycle from key auto-repeat on a property whose type is
\* flag or choice is dropped: MPContext is as before, nothing is notified,
\* and the command completes with success.  Any other add or cycle (not
\* repeated, another type, or a type that cannot be fetched) makes its
\* M_PROPERTY_SWITCH call; a successful call is notified and the value of
\* a single successful switch is stored.
C29_AutoRepeat ==
    cmd_call.cmd \in {"add", "cycle"} =>
      IF /\ cmd_call.repeated
         /\ cmd_call.name \in PlayerOpts
         /\ OptType(cmd_call.name) \in
              {"m_option_type_flag", "m_option_type_choice"}
        THEN /\ cmd_call.dropped
             /\ mp = cmd_call.before
             /\ cmd_call.status = <<>>
             /\ cmd_call.log = <<[ev |-> "complete", name |-> ""]>>
             /\ cmd_call.success
        ELSE /\ ~cmd_call.dropped
             /\ cmd_call.status # <<>>
             /\ cmd_call.status[1] = cmd_call.rs[1]
             /\ cmd_call.rs[1] = "M_PROPERTY_OK"
                  => /\ cmd_call.log[1] =
                          [ev |-> "notify", name |-> cmd_call.name]
                     /\ Len(cmd_call.status) = 1
                          => mp = [cmd_call.before EXCEPT
                                     ![cmd_call.name] =
                                       Switched(cmd_call.before,
                                                cmd_call.name)]

\* An auto-repeated cycle of "pause" was dropped.
C29_Witness ==
    /\ cmd_call.cmd = "cycle"
    /\ cmd_call.name = "pause"
    /\ cmd_call.repeated
    /\ cmd_call.dropped
    /\ mp = cmd_call.before

\* ------------------------------------------------------------------------
\* Property names and the events that change them
\* ------------------------------------------------------------------------

\* Names are C strings: sequences of characters, ended by a NUL that is
\* not part of the sequence.
MaxNameLen == 3

Alphabet == {"a", "b", "/"}

NUL == "NUL"

\* "options/".
OptionsPrefix == <<"o", "p", "t", "i", "o", "n", "s", "/">>

\* Every name over Alphabet of at most MaxNameLen characters and "*", each
\* also with "options/" in front.
ShortNames ==
    LET plain == UNION {[1..k -> Alphabet] : k \in 0..MaxNameLen}
                   \cup {<<"*">>}
    IN  plain \cup {OptionsPrefix \o s : s \in plain}

\* Names of properties of this player, and names close to them.
KnownNames ==
    {<<"p", "a", "u", "s", "e">>,
     <<"o", "p", "t", "i", "o", "n", "s", "/", "p", "a", "u", "s", "e">>,
     <<"v", "o", "l", "u", "m", "e">>,
     <<"p", "l", "a", "y", "l", "i", "s", "t">>,
     <<"p", "l", "a", "y", "l", "i", "s", "t", "/", "c", "o", "u", "n", "t">>,
     <<"p", "l", "a", "y", "/", "x">>,
     <<"s", "u", "b", "/", "x">>,
     <<"t", "i", "m", "e", "-", "p", "o", "s">>,
     <<"m", "e", "t", "a", "d", "a", "t", "a", "/", "b", "y", "-", "k", "e",
       "y", "/", "t", "i", "t", "l", "e">>,
     <<"n", "o", "s", "u", "c", "h">>,
     <<"o", "p", "t", "i", "o", "n", "s", "/", "n", "o", "s", "u", "c", "h">>,
     <<"c", "o", "r", "e", "-", "i", "d", "l", "e">>}

\* Each entry describes which properties an event (possibly) changes; the
\* rows in the order of the source, a row being the NULL-terminated list
\* of one event.
mp_event_property_change ==
  <<
    [event |-> "MPV_EVENT_START_FILE",
     list |-> <<
         <<"*">>>>],
    [event |-> "MPV_EVENT_END_FILE",
     list |-> <<
         <<"*">>>>],
    [event |-> "MPV_EVENT_FILE_LOADED",
     list |-> <<
         <<"*">>>>],
    [event |-> "MP_EVENT_CHANGE_ALL",
     list |-> <<
         <<"*">>>>],
    [event |-> "MPV_EVENT_TRACKS_CHANGED",
     list |-> <<
         <<"t", "r", "a", "c", "k", "-", "l", "i", "s", "t">>>>],
    [event |-> "MPV_EVENT_TRACK_SWITCHED",
     list |-> <<
         <<"v", "i", "d">>,
         <<"v", "i", "d", "e", "o">>,
         <<"a", "i", "d">>,
         <<"a", "u", "d", "i", "o">>,
         <<"s", "i", "d">>,
         <<"s", "u", "b">>,
         <<"s", "e", "c", "o", "n", "d", "a", "r", "y", "-", "s", "i", "d">>>>],
    [event |-> "MPV_EVENT_IDLE",
     list |-> <<
         <<"*">>>>],
    [event |-> "MPV_EVENT_PAUSE",
     list |-> <<
         <<"p", "a", "u", "s", "e">>>>],
    [event |-> "MPV_EVENT_UNPAUSE",
     list |-> <<
         <<"p", "a", "u", "s", "e">>>>],
    [event |-> "MPV_EVENT_TICK",
     list |-> <<
         <<"t", "i", "m", "e", "-", "p", "o", "s">>,
         <<"a", "u", "d", "i", "o", "-", "p", "t", "s">>,
         <<"s", "t", "r", "e", "a", "m", "-", "p", "o", "s">>,
         <<"a", "v", "s", "y", "n", "c">>,
         <<"p", "e", "r", "c", "e", "n", "t", "-", "p", "o", "s">>,
         <<"t", "i", "m", "e", "-", "r", "e", "m", "a", "i", "n", "i", "n",
           "g">>,
         <<"p", "l", "a", "y", "t", "i", "m", "e", "-", "r", "e", "m", "a",
           "i", "n", "i", "n", "g">>,
         <<"p", "l", "a", "y", "b", "a", "c", "k", "-", "t", "i", "m", "e">>,
         <<"e", "s", "t", "i", "m", "a", "t", "e", "d", "-", "v", "f", "-",
           "f", "p", "s">>,
         <<"d", "r", "o", "p", "-", "f", "r", "a", "m", "e", "-", "c", "o",
           "u", "n", "t">>,
         <<"v", "o", "-", "d", "r", "o", "p", "-", "f", "r", "a", "m", "e",
           "-", "c", "o", "u", "n", "t">>,
         <<"t", "o", "t", "a", "l", "-", "a", "v", "s", "y", "n", "c", "-",
           "c", "h", "a", "n", "g", "e">>,
         <<"a", "u", "d", "i", "o", "-", "s", "p", "e", "e", "d", "-", "c",
           "o", "r", "r", "e", "c", "t", "i", "o", "n">>,
         <<"v", "i", "d", "e", "o", "-", "s", "p", "e", "e", "d", "-", "c",
           "o", "r", "r", "e", "c", "t", "i", "o", "n">>,
         <<"v", "o", "-", "d", "e", "l", "a", "y", "e", "d", "-", "f", "r",
           "a", "m", "e", "-", "c", "o", "u", "n", "t">>,
         <<"m", "i", "s", "t", "i", "m", "e", "d", "-", "f", "r", "a", "m",
           "e", "-", "c", "o", "u", "n", "t">>,
         <<"v", "s", "y", "n", "c", "-", "r", "a", "t", "i", "o">>,
         <<"e", "s", "t", "i", "m", "a", "t", "e", "d", "-", "d", "i", "s",
           "p", "l", "a", "y", "-", "f", "p", "s">>,
         <<"v", "s", "y", "n", "c", "-", "j", "i", "t", "t", "e", "r">>,
         <<"s", "u", "b", "-", "t", "e", "x", "t">>,
         <<"a", "u", "d", "i", "o", "-", "b", "i", "t", "r", "a", "t", "e">>,
         <<"v", "i", "d", "e", "o", "-", "b", "i", "t", "r", "a", "t", "e">>,
         <<"s", "u", "b", "-", "b", "i", "t", "r", "a", "t", "e">>,
         <<"d", "e", "c", "o", "d", "e", "r", "-", "f", "r", "a", "m", "e",
           "-", "d", "r", "o", "p", "-", "c", "o", "u", "n", "t">>,
         <<"f", "r", "a", "m", "e", "-", "d", "r", "o", "p", "-", "c", "o",
           "u", "n", "t">>,
         <<"v", "i", "d", "e", "o", "-", "f", "r", "a", "m", "e", "-", "i",
           "n", "f", "o">>>>],
    [event |-> "MP_EVENT_DURATION_UPDATE",
     list |-> <<
         <<"d", "u", "r", "a", "t", "i", "o", "n">>>>],
    [event |-> "MPV_EVENT_VIDEO_RECONFIG",
     list |-> <<
         <<"v", "i", "d", "e", "o", "-", "o", "u", "t", "-", "p", "a", "r",
           "a", "m", "s">>,
         <<"v", "i", "d", "e", "o", "-", "p", "a", "r", "a", "m", "s">>,
         <<"v", "i", "d", "e", "o", "-", "f", "o", "r", "m", "a", "t">>,
         <<"v", "i", "d", "e", "o", "-", "c", "o", "d", "e", "c">>,
         <<"v", "i", "d", "e", "o", "-", "b", "i", "t", "r", "a", "t", "e">>,
         <<"d", "w", "i", "d", "t", "h">>,
         <<"d", "h", "e", "i", "g", "h", "t">>,
         <<"w", "i", "d", "t", "h">>,
         <<"h", "e", "i", "g", "h", "t">>,
         <<"f", "p", "s">>,
         <<"a", "s", "p", "e", "c", "t">>,
         <<"v", "o", "-", "c", "o", "n", "f", "i", "g", "u", "r", "e", "d">>,
         <<"c", "u", "r", "r", "e", "n", "t", "-", "v", "o">>,
         <<"c", "o", "l", "o", "r", "m", "a", "t", "r", "i", "x">>,
         <<"c", "o", "l", "o", "r", "m", "a", "t", "r", "i", "x", "-", "i",
           "n", "p", "u", "t", "-", "r", "a", "n", "g", "e">>,
         <<"c", "o", "l", "o", "r", "m", "a", "t", "r", "i", "x", "-", "o",
           "u", "t", "p", "u", "t", "-", "r", "a", "n", "g", "e">>,
         <<"c", "o", "l", "o", "r", "m", "a", "t", "r", "i", "x", "-", "p",
           "r", "i", "m", "a", "r", "i", "e", "s">>,
         <<"v", "i", "d", "e", "o", "-", "a", "s", "p", "e", "c", "t">>,
         <<"v", "i", "d", "e", "o", "-", "d", "e", "c", "-", "p", "a", "r",
           "a", "m", "s">>,
         <<"h", "w", "d", "e", "c">>,
         <<"h", "w", "d", "e", "c", "-", "c", "u", "r", "r", "e", "n", "t">>,
         <<"h", "w", "d", "e", "c", "-", "i", "n", "t", "e", "r", "o", "p">>>>],
    [event |-> "MPV_EVENT_AUDIO_RECONFIG",
     list |-> <<
         <<"a", "u", "d", "i", "o", "-", "f", "o", "r", "m", "a", "t">>,
         <<"a", "u", "d", "i", "o", "-", "c", "o", "d", "e", "c">>,
         <<"a", "u", "d", "i", "o", "-", "b", "i", "t", "r", "a", "t", "e">>,
         <<"s", "a", "m", "p", "l", "e", "r", "a", "t", "e">>,
         <<"c", "h", "a", "n", "n", "e", "l", "s">>,
         <<"a", "u", "d", "i", "o">>,
         <<"v", "o", "l", "u", "m", "e">>,
         <<"m", "u", "t", "e">>,
         <<"c", "u", "r", "r", "e", "n", "t", "-", "a", "o">>,
         <<"a", "u", "d", "i", "o", "-", "c", "o", "d", "e", "c", "-", "n",
           "a", "m", "e">>,
         <<"a", "u", "d", "i", "o", "-", "p", "a", "r", "a", "m", "s">>,
         <<"a", "u", "d", "i", "o", "-", "o", "u", "t", "-", "p", "a", "r",
           "a", "m", "s">>,
         <<"v", "o", "l", "u", "m", "e", "-", "m", "a", "x">>,
         <<"m", "i", "x", "e", "r", "-", "a", "c", "t", "i", "v", "e">>>>],
    [event |-> "MPV_EVENT_SEEK",
     list |-> <<
         <<"s", "e", "e", "k", "i", "n", "g">>,
         <<"c", "o", "r", "e", "-", "i", "d", "l", "e">>,
         <<"e", "o", "f", "-", "r", "e", "a", "c", "h", "e", "d">>>>],
    [event |-> "MPV_EVENT_PLAYBACK_RESTART",
     list |-> <<
         <<"s", "e", "e", "k", "i", "n", "g">>,
         <<"c", "o", "r", "e", "-", "i", "d", "l", "e">>,
         <<"e", "o", "f", "-", "r", "e", "a", "c", "h", "e", "d">>>>],
    [event |-> "MPV_EVENT_METADATA_UPDATE",
     list |-> <<
         <<"m", "e", "t", "a", "d", "a", "t", "a">>,
         <<"f", "i", "l", "t", "e", "r", "e", "d", "-", "m", "e", "t", "a",
           "d", "a", "t", "a">>,
         <<"m", "e", "d", "i", "a", "-", "t", "i", "t", "l", "e">>>>],
    [event |-> "MPV_EVENT_CHAPTER_CHANGE",
     list |-> <<
         <<"c", "h", "a", "p", "t", "e", "r">>,
         <<"c", "h", "a", "p", "t", "e", "r", "-", "m", "e", "t", "a", "d",
           "a", "t", "a">>>>],
    [event |-> "MP_EVENT_CACHE_UPDATE",
     list |-> <<
         <<"c", "a", "c", "h", "e">>,
         <<"c", "a", "c", "h", "e", "-", "f", "r", "e", "e">>,
         <<"c", "a", "c", "h", "e", "-", "u", "s", "e", "d">>,
         <<"c", "a", "c", "h", "e", "-", "i", "d", "l", "e">>,
         <<"d", "e", "m", "u", "x", "e", "r", "-", "c", "a", "c", "h", "e",
           "-", "d", "u", "r", "a", "t", "i", "o", "n">>,
         <<"d", "e", "m", "u", "x", "e", "r", "-", "c", "a", "c", "h", "e",
           "-", "i", "d", "l", "e">>,
         <<"p", "a", "u", "s", "e", "d", "-", "f", "o", "r", "-", "c", "a",
           "c", "h", "e">>,
         <<"d", "e", "m", "u", "x", "e", "r", "-", "c", "a", "c", "h", "e",
           "-", "t", "i", "m", "e">>,
         <<"c", "a", "c", "h", "e", "-", "b", "u", "f", "f", "e", "r", "i",
           "n", "g", "-", "s", "t", "a", "t", "e">>,
         <<"c", "a", "c", "h", "e", "-", "s", "p", "e", "e", "d">>,
         <<"c", "a", "c", "h", "e", "-", "p", "e", "r", "c", "e", "n", "t">>>>],
    [event |-> "MP_EVENT_WIN_RESIZE",
     list |-> <<
         <<"w", "i", "n", "d", "o", "w", "-", "s", "c", "a", "l", "e">>,
         <<"o", "s", "d", "-", "w", "i", "d", "t", "h">>,
         <<"o", "s", "d", "-", "h", "e", "i", "g", "h", "t">>,
         <<"o", "s", "d", "-", "p", "a", "r">>>>],
    [event |-> "MP_EVENT_WIN_STATE",
     list |-> <<
         <<"w", "i", "n", "d", "o", "w", "-", "m", "i", "n", "i", "m", "i",
           "z", "e", "d">>,
         <<"d", "i", "s", "p", "l", "a", "y", "-", "n", "a", "m", "e", "s">>,
         <<"d", "i", "s", "p", "l", "a", "y", "-", "f", "p", "s">>,
         <<"f", "u", "l", "l", "s", "c", "r", "e", "e", "n">>>>],
    [event |-> "MP_EVENT_CHANGE_PLAYLIST",
     list |-> <<
         <<"p", "l", "a", "y", "l", "i", "s", "t">>,
         <<"p", "l", "a", "y", "l", "i", "s", "t", "-", "p", "o", "s">>,
         <<"p", "l", "a", "y", "l", "i", "s", "t", "-", "p", "o", "s", "-",
           "1">>,
         <<"p", "l", "a", "y", "l", "i", "s", "t", "-", "c", "o", "u", "n",
           "t">>,
         <<"p", "l", "a", "y", "l", "i", "s", "t", "/", "c", "o", "u", "n",
           "t">>>>],
    [event |-> "MP_EVENT_CORE_IDLE",
     list |-> <<
         <<"c", "o", "r", "e", "-", "i", "d", "l", "e">>,
         <<"e", "o", "f", "-", "r", "e", "a", "c", "h", "e", "d">>>>]
  >>

\* The character at 0-based offset i - 1 of the C string s.
At(s, i) == IF i <= Len(s) THEN s[i] ELSE NUL

\* strncmp(a, b, n) == 0.
strncmp_eq(a, b, n) ==
    \A i \in 1..n :
      (\A j \in 1..(i - 1) : At(a, j) # NUL) => At(a, i) = At(b, i)

\* prefix_len(p): the offset of the first '/', or strlen(p) + 1.
prefix_len(p) ==
    IF \E i \in 1..Len(p) : p[i] = "/"
      THEN (CHOOSE i \in 1..Len(p) :
              p[i] = "/" /\ \A j \in 1..(i - 1) : p[j] # "/") - 1
      ELSE Len(p) + 1

\* if (strncmp(a, "options/", 8) == 0) a += 8;
skip_options(a) ==
    IF strncmp_eq(a, OptionsPrefix, 8) THEN SubSeq(a, 9, Len(a)) ELSE a

\* match_property(a, b).
match_property(a, b) ==
    IF a = <<"*">>
      THEN TRUE
      ELSE LET a2 == skip_options(a)
               b2 == skip_options(b)
           IN  strncmp_eq(a2, b2, Min({prefix_len(a2), prefix_len(b2)}))

\* The inner loop of mp_get_property_event_mask: whether some entry of
\* list from index i on matches name.
RECURSIVE list_matches(_, _, _)
list_matches(list, i, name) ==
    IF i > Len(list)
      THEN FALSE
      ELSE match_property(list[i], name) \/ list_matches(list, i + 1, name)

\* Faulty variant: only the first entry of each row is tried.
mp_get_property_event_mask_first(name) ==
    {mp_event_property_change[n].event :
       n \in {m \in 1..Len(mp_event_property_change) :
                match_property(mp_event_property_change[m].list[1], name)}}

\* mp_get_property_event_mask(name): the set of events whose bit is set.
mp_get_property_event_mask(name) ==
    {mp_event_property_change[n].event :
       n \in {m \in 1..Len(mp_event_property_change) :
                list_matches(mp_event_property_change[m].list, 1, name)}}

NoMatchCall ==
    [op |-> "idle", a |-> <<>>, b |-> <<>>, r |-> FALSE, mask |-> {}]

\* A caller asks whether some name a covers some name b.
MatchProperty ==
    /\ match_call.op = "idle"
    /\ \E a \in ShortNames, b \in ShortNames :
         match_call' = [op |-> "match", a |-> a, b |-> b,
                        r |-> match_property(a, b), mask |-> {}]
    /\ UNCHANGED <<hookVars, auxVars, cmdVars, propVars>>

\* A client observes a property: its event mask is computed.
EventMask ==
    /\ match_call.op = "idle"
    /\ \E name \in ShortNames \cup KnownNames :
         match_call' = [op |-> "mask", a |-> <<>>, b |-> name, r |-> FALSE,
                        mask |-> mp_get_property_event_mask(name)]
    /\ UNCHANGED <<hookVars, auxVars, cmdVars, propVars>>

\* The call returns.
MatchReturn ==
    /\ match_call.op # "idle"
    /\ match_call' = NoMatchCall
    /\ UNCHANGED <<hookVars, auxVars, cmdVars, propVars>>

MatchNext == MatchProperty \/ EventMask \/ MatchReturn

MatchSpec == HookInit /\ [][MatchNext]_vars

\* The name without a leading "options/", up to its first '/'.
Segment(s) ==
    LET t == IF Len(s) >= 8 /\ SubSeq(s, 1, 8) = OptionsPrefix
               THEN SubSeq(s, 9, Len(s)) ELSE s
        n == IF \E i \in 1..Len(t) : t[i] = "/"
               THEN (CHOOSE i \in 1..Len(t) :
                       t[i] = "/" /\ \A j \in 1..(i - 1) : t[j] # "/") - 1
               ELSE Len(t)
    IN  SubSeq(t, 1, n)

\* C26: match_property(a, b) is true exactly when a is "*" or the first
\* path segments of a and b, "options/" removed, are equal.
C26_MatchesReference ==
    match_call.op = "match" =>
      (match_call.r <=>
         (match_call.a = <<"*">>
            \/ Segment(match_call.a) = Segment(match_call.b)))

\* "a/" is found to cover "ab".
C26_PrefixMatches ==
    /\ match_call.op = "match"
    /\ match_call.a = <<"a", "/">>
    /\ match_call.b = <<"a", "b">>
    /\ match_call.r

\* The events whose row is the single entry "*".
WildcardEvents ==
    {"MPV_EVENT_START_FILE", "MPV_EVENT_END_FILE", "MPV_EVENT_FILE_LOADED",
     "MP_EVENT_CHANGE_ALL", "MPV_EVENT_IDLE"}

C30_ParentCompletedAfterSubs ==
    \A l \in ListIds :
        LET parent == lists[l].parent
            st     == lists[l].started
            done   == lists[l].at_completion
        IN  /\ ctxs[parent].calls = Len(done)
            /\ Len(done) <= 1
            /\ \A i \in 1..Len(done) :
                  done[i].started = NumSubs(l) /\ done[i].pending = {}
            /\ (/\ Len(st) = NumSubs(l)
                /\ \A k \in 1..Len(st) :
                      st[k].cmd.async \/ k \in SyncDone(l))
                 => ctxs[parent].calls = 1
            /\ NumSubs(l) = 0 => ctxs[parent].calls = 1

\* The parent of a list of three was completed after its last
\* sub-command, a synchronous one run on the worker pool, had completed.
C30_Witness ==
    \E l \in ListIds :
        /\ NumSubs(l) = 3
        /\ lists[l].started[3].cmd.kind = "worker"
        /\ ~lists[l].started[3].cmd.async
        /\ ctxs[lists[l].started[3].id].handler_calls = 1
        /\ ctxs[lists[l].parent].calls = 1
        /\ lists[l].resumed >= 1

\* ------------------------------------------------------------------------
\* Hook manager: invocations per processing round
\* ------------------------------------------------------------------------

NoneSent == [id \in 1..MaxHooks |-> 0]

\* One more invocation of handler id of the type (id 0: none was sent).
CountSent(f, type, id) ==
    IF id = 0 THEN f ELSE [f EXCEPT ![type][id] = Min({@ + 1, 2})]

\* mp_hook_start; a start with no handler of the type active opens a new
\* round, a start with one active belongs to the round in progress.
SentStart(type) ==
    /\ HookStart(type)
    /\ LET res  == mp_hook_start(hooks, clients, type)
           base == IF ActiveOfType(hooks, type) = {}
                     THEN [sent EXCEPT ![type] = NoneSent]
                     ELSE sent
       IN  sent' = CountSent(base, type, res.invoked)
    /\ UNCHANGED <<round, startSeq>>

\* mp_hook_continue.
SentContinue(client, id) ==
    /\ HookContinue(client, id)
    /\ LET res == mp_hook_continue(hooks, clients, client, id)
           n   == FindHandler(hooks, client, id)
       IN  sent' = IF n = 0 THEN sent
                   ELSE CountSent(sent, hooks[n].type, res.invoked)
    /\ UNCHANGED <<round, startSeq>>

\* mp_hook_test_completion; a result of true ends the round.
SentTestCompletion(type) ==
    /\ LET res == mp_hook_test_completion(hooks, clients, type)
       IN  /\ hooks' = res.hooks
           /\ sent' = IF res.ret THEN [sent EXCEPT ![type] = NoneSent]
                                 ELSE sent
    /\ UNCHANGED <<hook_seq, clients, round, startSeq>>
    /\ UNCHANGED <<cmdVars, propVars, match_call, auxVars>>

HookSentNext ==
    \/ \E c \in Clients, t \in Types, p \in Priorities : HookAdd(c, t, p)
    \/ \E t \in Types : SentStart(t)
    \/ \E c \in Clients, id \in 1..MaxHooks : SentContinue(c, id)
    \/ \E t \in Types : SentTestCompletion(t)
    \/ \E c \in Clients : ClientDisappear(c)

HookSentSpec == HookInit /\ [][HookSentNext]_vars

\* C31: between a start of a hook type and the report of its completion no
\* handler of the type is sent more than one invocation.
C31_InvokedOncePerRound ==
    \A t \in Types, id \in 1..MaxHooks : sent[t][id] <= 1

\* A handler was sent a second invocation while another handler of its
\* type was active.
C31_InvokedTwice ==
    \E t \in Types, id \in 1..MaxHooks :
        /\ sent[t][id] = 2
        /\ \E n \in ActiveOfType(hooks, t) : hooks[n].seq # id

\* ------------------------------------------------------------------------
\* Hook manager: invalid acknowledgements
\* ------------------------------------------------------------------------

\* C32: mp_hook_continue for a client and seq number that match no
\* registration, or match one that is not active, returns
\* MPV_ERROR_INVALID_PARAMETER and leaves the handler list as it is: no
\* active flag changes, nothing is notified, nothing is removed, the core
\* is not woken.
C32_InvalidAckChangesNothing ==
    \A c \in Clients, id \in 1..MaxHooks :
        LET n   == FindHandler(hooks, c, id)
            res == mp_hook_continue(hooks, clients, c, id)
        IN  (n = 0 \/ ~hooks[n].active)
              => /\ res.r = MPV_ERROR_INVALID_PARAMETER
                 /\ res.hooks = hooks
                 /\ res.invoked = 0
                 /\ res.failed = {}
                 /\ res.woke = 0

\* A registration that is not active is followed by another handler of its
\* type while a third handler of the type is active; acknowledging the
\* first is refused.
C32_Witness ==
    \E n \in 1..Len(hooks) :
        /\ ~hooks[n].active
        /\ hooks[n].client \in clients
        /\ TypeIdx(hooks, hooks[n].type, n + 1) # {}
        /\ ActiveOfType(hooks, hooks[n].type) # {}
        /\ mp_hook_continue(hooks, clients, hooks[n].client,
                            hooks[n].seq).r = MPV_ERROR_INVALID_PARAMETER

\* ------------------------------------------------------------------------
\* Option bridge: failing writes
\* ------------------------------------------------------------------------

\* C33: an option write that fails (the bridge returns an error, on the
\* property route or on the direct-write route) has called
\* mp_notify_property for nothing.
C33_FailedWriteSilent ==
    (opt_call.name # "" /\ opt_call.ret < 0) => opt_call.notified = <<>>

\* The direct write of an option fails after its name was notified.
C33_FailedDirectWriteNotified ==
    /\ opt_call.direct
    /\ opt_call.r_direct = M_OPT_INVALID
    /\ opt_call.ret = M_OPT_INVALID
    /\ opt_call.notified = <<opt_call.name>>

\* On the property route alone a failing write notifies nothing.
C33_FailedPropertySetSilent ==
    (opt_call.name # "" /\ ~opt_call.direct /\ opt_call.ret < 0)
      => opt_call.notified = <<>>

\* ------------------------------------------------------------------------
\* Hook manager: hook types do not interfere
\* ------------------------------------------------------------------------

\* The handlers of the types other than type, in list order.
OtherTypes(hs, type) == SelectSeq(hs, LAMBDA h : h.type # type)

SeqsOf(hs) == {hs[n].seq : n \in 1..Len(hs)}

SeqsOfType(hs, type) == {hs[n].seq : n \in TypeIdx(hs, type, 1)}

\* What a call for one type may do to the list before, given the list
\* after, the handler notified and the handlers removed: the handlers of
\* the other types are as they were, the handler notified and the handlers
\* removed are of the type, and exactly the handlers removed are missing.
FrameOfType(before, after, type, invoked, removed) ==
    /\ OtherTypes(after, type) = OtherTypes(before, type)
    /\ invoked # 0 => invoked \in SeqsOfType(before, type)
    /\ removed \subseteq SeqsOfType(before, type)
    /\ SeqsOf(after) = SeqsOf(before) \ removed

\* C34: mp_hook_start, mp_hook_continue and mp_hook_test_completion for one
\* hook type leave every handler of another type in the list with its
\* active flag as it was and notify none of them; the handlers they remove
\* are exactly those whose notification failed, or the one active handler
\* whose client is gone.
C34_OtherTypesUntouched ==
    /\ \A t \in Types :
         LET res == mp_hook_start(hooks, clients, t)
         IN  /\ FrameOfType(hooks, res.hooks, t, res.invoked, res.failed)
             /\ \A n \in 1..Len(hooks) :
                  hooks[n].seq \in res.failed => hooks[n].client \notin clients
    /\ \A n \in 1..Len(hooks) :
         LET res == mp_hook_continue(hooks, clients, hooks[n].client,
                                     hooks[n].seq)
         IN  /\ FrameOfType(hooks, res.hooks, hooks[n].type, res.invoked,
                            res.failed)
             /\ \A k \in 1..Len(hooks) :
                  hooks[k].seq \in res.failed => hooks[k].client \notin clients
    /\ \A t \in Types :
         LET res  == mp_hook_test_completion(hooks, clients, t)
             gone == SeqsOf(hooks) \ SeqsOf(res.hooks)
         IN  /\ FrameOfType(hooks, res.hooks, t, 0, gone)
             /\ Cardinality(gone) <= 1
             /\ \A n \in 1..Len(hooks) :
                  hooks[n].seq \in gone
                    => hooks[n].active /\ hooks[n].client \notin clients

\* Handlers of two types are registered, one of the second type is active,
\* and starting the first type removes a handler whose client is gone and
\* notifies the next one.
C34_Witness ==
    \E t \in Types, u \in Types :
        /\ t # u
        /\ ActiveOfType(hooks, u) # {}
        /\ LET res == mp_hook_start(hooks, clients, t)
           IN  res.failed # {} /\ res.invoked # 0

\* ------------------------------------------------------------------------
\* Worker commands during shutdown
\* ------------------------------------------------------------------------

\* The player begins to shut down (the quit command sets stop_play).
BeginShutdown ==
    /\ lock = CoreThread
    /\ ~shutting_down
    /\ shutting_down' = TRUE
    /\ UNCHANGED <<ctxs, lists, jobs, outstanding_async, aborts, uaf,
                   wakeups, lockVars>>
    /\ UNCHANGED <<hookVars, auxVars, propVars, match_call>>

ShutdownNext ==
    \/ \E n \in 1..MaxCtx : LockSubmit(n)
    \/ CoreUnlock
    \/ CoreLock
    \/ \E id \in 1..MaxCtx : WorkerLock(id)
    \/ \E id \in 1..MaxCtx : WorkerHandler(id)
    \/ \E id \in 1..MaxCtx : WorkerRelock(id)
    \/ \E id \in 1..MaxCtx : WorkerFinish(id)
    \/ BeginShutdown

ShutdownSpec == HookInit /\ [][ShutdownNext]_vars

\* C35: outstanding_async is the number of commands queued on the worker
\* pool whose job has not finished, and is never negative; a step that
\* changes it is made by the holder of the core lock (the core thread
\* raises it, the pool thread of the finishing job lowers it); and the step
\* that lowers it to 0 while the player is shutting down calls
\* mp_wakeup_core, which no other step does.
C35_OutstandingAsync ==
    /\ [](outstanding_async = Cardinality(jobs) /\ outstanding_async >= 0)
    /\ [][/\ outstanding_async' > outstanding_async => lock = CoreThread
          /\ outstanding_async' < outstanding_async =>
               /\ outstanding_async' = outstanding_async - 1
               /\ \E id \in jobs : jobs' = jobs \ {id} /\ lock = PoolThread(id)
          /\ wakeups' = wakeups + 1 <=>
               (/\ outstanding_async' < outstanding_async
                /\ outstanding_async' = 0
                /\ shutting_down)
          /\ wakeups' \in {wakeups, wakeups + 1}]_vars

\* The last job finished during shutdown after an earlier one had finished
\* before it: one wakeup, nothing outstanding, two jobs done.
C35_Witness ==
    /\ shutting_down
    /\ wakeups = 1
    /\ outstanding_async = 0
    /\ Cardinality({id \in 1..MaxCtx : wpc[id] = "done"}) >= 2

\* ------------------------------------------------------------------------
\* cycle-values: the search for the current value
\* ------------------------------------------------------------------------

\* Largest number of value arguments of a cycle-values command.
MaxValues == 3

\* The value arguments tried for a property: literals its type parses, two
\* of them for the same value of volume, and one the type of pause rejects.
LiteralsOf(name) ==
    IF name = "pause" THEN {"no", "yes", "100"}
    ELSE {"0", "100", "100.0"}

\* m_option_parse(log, type, name, param, &val): [r, v], r < 0 when the
\* type rejects the literal.
m_option_parse(type, s) ==
    CASE type = "m_option_type_flag" /\ s = "yes" -> [r |-> 1, v |-> 1]
      [] type = "m_option_type_flag" /\ s = "no"  -> [r |-> 1, v |-> 0]
      [] type = "m_option_type_float" /\ s = "0"  -> [r |-> 1, v |-> 0]
      [] type = "m_option_type_float" /\ s \in {"100", "100.0"} ->
           [r |-> 1, v |-> 100]
      [] OTHER -> [r |-> M_OPT_INVALID, v |-> 0]

\* m_option_print(type, val): the one string a value is printed as.
m_option_print(type, v) ==
    CASE type = "m_option_type_flag" -> IF v = 1 THEN "yes" ELSE "no"
      [] type = "m_option_type_float" ->
           IF v = 0 THEN "0.000000" ELSE "100.000000"
      [] OTHER -> ""

\* compare_values(type, a, b).
compare_values(type, a, b) == m_option_print(type, a) = m_option_print(type, b)

\* m_property_do for M_PROPERTY_SET_STRING: the literal is parsed through
\* the property's type and the value set with M_PROPERTY_SET.
m_property_set_string(S, name, s) ==
    LET val == m_option_parse(OptType(name), s)
    IN  IF val.r < 0
          THEN [r |-> "M_PROPERTY_ERROR", S |-> S, val |-> 0]
          ELSE m_property_do(S, name, "M_PROPERTY_SET", val.v, 0)

\* cmd->args[n].v.s for the C index n of a sequence of arguments.
ArgAt(args, n) == args[n + 1]

\* Faulty variant: the search goes on after a match, so the last matching
\* argument is the current one.
RECURSIVE cycle_values_find_last(_, _, _, _)
cycle_values_find_last(args, n, type, curval) ==
    IF n >= Len(args)
      THEN -1
      ELSE
        LET val  == m_option_parse(type, ArgAt(args, n))
            rest == cycle_values_find_last(args, n + 1, type, curval)
        IN  IF rest >= 0
              THEN rest
              ELSE IF val.r >= 0 /\ compare_values(type, curval, val.v)
                THEN n
                ELSE -1

\* The loop of cmd_cycle_values from argument n on: the index current of
\* the first argument that parses and compares equal to curval, -1 when
\* there is none.
RECURSIVE cycle_values_find(_, _, _, _)
cycle_values_find(args, n, type, curval) ==
    IF n >= Len(args)
      THEN -1
      ELSE
        LET val == m_option_parse(type, ArgAt(args, n))
        IN  IF val.r < 0
              THEN cycle_values_find(args, n + 1, type, curval)
              ELSE IF compare_values(type, curval, val.v)
                THEN n
                ELSE cycle_values_find(args, n + 1, type, curval)

\* The index cmd_cycle_values moves to from current.
cycle_values_next(current, first, num_args, dir) ==
    IF current >= 0
      THEN LET c1 == current + dir
               c2 == IF c1 < first THEN num_args - 1 ELSE c1
           IN  IF c2 >= num_args THEN first ELSE c2
      ELSE IF dir > 0 THEN first ELSE num_args - 1

\* What cmd_cycle_values reads from cmd->args: dir, the index of the
\* property name and of the first value.
CycleArgs(args) ==
    LET rev == ArgAt(args, 0) = "!reverse"
    IN  [dir |-> IF rev THEN -1 ELSE 1,
         name |-> ArgAt(args, IF rev THEN 1 ELSE 0),
         first |-> IF rev THEN 2 ELSE 1]

\* The argument cmd_cycle_values hands to change_property_cmd, when the
\* property's type and value were fetched.
cycle_values_pick(S, args) ==
    LET a       == CycleArgs(args)
        curval  == m_property_do(S, a.name, "M_PROPERTY_GET", 0, 0).val
        current == cycle_values_find(args, a.first, OptType(a.name), curval)
    IN  ArgAt(args, cycle_values_next(current, a.first, Len(args), a.dir))

\* cmd_cycle_values(p) for the arguments args.
cmd_cycle_values_args(C, args) ==
    LET a == CycleArgs(args)
    IN  IF a.first >= Len(args)
          THEN cmd_cycle_values(C, a.name, FALSE, 0, "M_PROPERTY_OK")
          ELSE
            LET set == m_property_set_string(C.S, a.name,
                                             cycle_values_pick(C.S, args))
            IN  cmd_cycle_values(C, a.name, TRUE, set.S[a.name], set.r)

\* A cycle-values command with these arguments is run.
CycleValues(args) ==
    /\ \E C \in {complete_property_command(
                   cmd_cycle_values_args(NewPropCmd(mp), args))} :
        LET a == CycleArgs(args)
        IN
           /\ mp' = C.S
           /\ cmd_call' = [cmd |-> "cycle-values", name |-> a.name,
                           repeated |-> FALSE, units |-> 1, rs |-> <<>>,
                           v |-> 0, has_values |-> a.first < Len(args),
                           before |-> mp, success |-> C.success,
                           msgs |-> C.msgs, log |-> C.log,
                           status |-> C.status, dropped |-> C.dropped,
                           args |-> args,
                           picked |-> IF a.first < Len(args)
                                        THEN cycle_values_pick(mp, args)
                                        ELSE ""]
    /\ UNCHANGED <<hookVars, auxVars, cmdVars, prop_call, opt_call, pcall, match_call>>

\* The argument lists submitted: an optional "!reverse", the name, and up
\* to MaxValues values.
CycleInputs ==
    UNION {
      UNION {
        {pre \o <<name>> \o vals : pre \in {<<>>, <<"!reverse">>},
                                   vals \in [1..k -> LiteralsOf(name)]}
        : k \in 0..MaxValues}
      : name \in {"pause", "volume"}}

CycleNext == \E args \in CycleInputs : CycleValues(args)

CycleSpec == HookInit /\ [][CycleNext]_vars

\* The values v1..vk of the last cycle-values command.
CycleVals ==
    LET a == CycleArgs(cmd_call.args)
    IN  SubSeq(cmd_call.args, a.first + 1, Len(cmd_call.args))

\* The positions i of v1..vk whose literal the property's type parses to
\* the value the property had.
CycleMatches ==
    {i \in 1..Len(CycleVals) :
       LET val == m_option_parse(OptType(cmd_call.name), CycleVals[i])
       IN  val.r >= 0 /\ val.v = cmd_call.before[cmd_call.name]}

\* The position the command is to set.
CycleTarget ==
    LET k   == Len(CycleVals)
        rev == Head(cmd_call.args) = "!reverse"
    IN  IF CycleMatches = {}
          THEN IF rev THEN k ELSE 1
          ELSE LET i == Min(CycleMatches)
               IN  IF rev THEN (IF i = 1 THEN k ELSE i - 1)
                          ELSE (IF i = k THEN 1 ELSE i + 1)

\* C36: a cycle-values command with values v1..vk, k >= 1, sets the value
\* after the first vi that parses to the property's current value, going
\* round from vk to v1 (with "!reverse": the value before it, going round
\* from v1 to vk), and v1 (with "!reverse": vk) when none does; the
\* property then has the value of that literal, or is unchanged and the
\* command fails when the type rejects the literal.  With no values the
\* command fails and the property is untouched.
C36_CycleValues ==
    cmd_call.cmd = "cycle-values" =>
      IF Len(CycleVals) = 0
        THEN /\ ~cmd_call.success
             /\ mp = cmd_call.before
             /\ cmd_call.status = <<>>
             /\ cmd_call.log = <<[ev |-> "complete", name |-> ""]>>
        ELSE LET lit == CycleVals[CycleTarget]
                 val == m_option_parse(OptType(cmd_call.name), lit)
             IN  /\ cmd_call.picked = lit
                 /\ IF val.r >= 0
                      THEN /\ mp = [cmd_call.before EXCEPT
                                      ![cmd_call.name] = val.v]
                           /\ cmd_call.success
                      ELSE /\ mp = cmd_call.before
                           /\ ~cmd_call.success

\* volume is 100; "!reverse" with the values "0", "100.0", "100": the
\* first match is "100.0", so "0" is set.
C36_Witness ==
    /\ cmd_call.cmd = "cycle-values"
    /\ cmd_call.args = <<"!reverse", "volume", "0", "100.0", "100">>
    /\ cmd_call.before.volume = 100
    /\ cmd_call.picked = "0"
    /\ mp.volume = 0

\* ------------------------------------------------------------------------
\* Command pipeline: the result slot
\* ------------------------------------------------------------------------

\* Contexts whose handler ran and wrote a result.
WroteResult ==
    {id \in CtxIds : ctxs[id].cmd.kind # "list" /\ ctxs[id].handler_calls >= 1}

\* C37: the completion continuation of a failed command finds cmd->result
\* empty, also when the handler had written one; the continuation of a
\* command that succeeded finds what the handler wrote; and once the
\* command is completed and its continuation has returned, the result is
\* released.
C37_ResultOnlyOnSuccess ==
    \A id \in CtxIds :
        /\ ctxs[id].cb_calls >= 1 =>
              /\ ~ctxs[id].success => ctxs[id].seen = "empty"
              /\ ctxs[id].seen = "value" =>
                    (ctxs[id].success /\ id \in WroteResult)
              /\ (ctxs[id].success /\ id \in WroteResult) =>
                    ctxs[id].seen = "value"
        /\ ctxs[id].cb_calls = 0 => ctxs[id].seen = ""
        /\ ctxs[id].freed => (ctxs[id].result = "empty" /\ ctxs[id].calls >= 1)

\* A worker command whose handler wrote a result and failed, and a command
\* that succeeded: the first continuation saw nothing, the second the
\* result; both results are released.
C37_Witness ==
    \E i \in CtxIds, j \in CtxIds :
        /\ ctxs[i].cmd.kind = "worker"
        /\ i \in WroteResult
        /\ ~ctxs[i].success
        /\ ctxs[i].seen = "empty"
        /\ ctxs[j].success
        /\ ctxs[j].seen = "value"
        /\ ctxs[i].freed /\ ctxs[j].freed
        /\ ctxs[i].result = "empty" /\ ctxs[j].result = "empty"

\* ------------------------------------------------------------------------
\* compare_hook on the whole range of priority and seq
\* ------------------------------------------------------------------------

\* int priority: values at and next to the ends of the 32-bit range.
WidePriorities == {INT_MIN, -1, 0, 1, INT_MAX}

\* int64_t seq, kept as its upper 32 bits (hi >= 0: hook_seq counts up
\* from 0) and its lower 32 bits as the int with the same bit pattern
\* (lo < 0 stands for lo + 2^32).
WideSeqs == [hi : {0, 1}, lo : {1, 2, INT_MAX, INT_MIN, INT_MIN + 2, -1}]

\* a < b for the unsigned numbers the 32-bit patterns a and b stand for.
ULess32(a, b) ==
    \/ a >= 0 /\ b < 0
    \/ (a < 0) = (b < 0) /\ a < b

\* s1 < s2 as 64-bit numbers.
SeqLess(s1, s2) ==
    \/ s1.hi < s2.hi
    \/ s1.hi = s2.hi /\ ULess32(s1.lo, s2.lo)

\* a - b is outside the range of int.
SubOverflows(a, b) ==
    IF b >= 0 THEN a < INT_MIN + b ELSE a > INT_MAX + b

\* What compare_hook can return.  The priority difference is an int
\* subtraction: when it overflows the behaviour is undefined, and a build
\* returns the wrapped difference or a value of either sign.  The seq
\* difference is an int64_t, which fits for seq numbers >= 0, converted to
\* the int the function returns: its lower 32 bits.
compare_hook_results(p1, s1, p2, s2) ==
    IF p1 # p2
      THEN IF SubOverflows(p1, p2)
             THEN {Sub32(p1, p2), -1, 1}
             ELSE {p1 - p2}
      ELSE {Sub32(s1.lo, s2.lo)}

\* qsort calls compare_hook on two handlers.
CompareHooks ==
    /\ cmp_call.op = "idle"
    /\ \E p1 \in WidePriorities, p2 \in WidePriorities,
          s1 \in WideSeqs, s2 \in WideSeqs :
         \E r \in compare_hook_results(p1, s1, p2, s2) :
            cmp_call' = [op |-> "done", p1 |-> p1, s1 |-> s1,
                         p2 |-> p2, s2 |-> s2, r |-> r]
    /\ UNCHANGED <<hookVars, cmdVars, propVars, match_call, seek_ctx>>

\* qsort has used the result.
CompareReturn ==
    /\ cmp_call.op = "done"
    /\ cmp_call' = NoCompareCall
    /\ UNCHANGED <<hookVars, cmdVars, propVars, match_call, seek_ctx>>

CompareNext == CompareHooks \/ CompareReturn

CompareSpec == HookInit /\ [][CompareNext]_vars

\* The first handler is before the second in (priority, seq) order.
HookBefore(c) ==
    \/ c.p1 < c.p2
    \/ c.p1 = c.p2 /\ SeqLess(c.s1, c.s2)

\* C38: the result of compare_hook is negative exactly when the first
\* handler is before the second in (priority, seq) order, for every pair
\* of int priorities and every pair of 64-bit seq numbers.
C38_ComparatorOrders ==
    cmp_call.op = "done" => (cmp_call.r < 0 <=> HookBefore(cmp_call))

\* Equal priorities, seq 1 and seq 2^31 + 2: the first is before the
\* second, the lower 32 bits of the difference are INT_MAX.
C38_WrongSign ==
    /\ cmp_call.op = "done"
    /\ cmp_call.p1 = cmp_call.p2
    /\ cmp_call.s1 = [hi |-> 0, lo |-> 1]
    /\ cmp_call.s2 = [hi |-> 0, lo |-> INT_MIN + 2]
    /\ cmp_call.r = INT_MAX

\* When neither difference leaves the range of int, the sign is right.
C38_InRangeOrders ==
    (/\ cmp_call.op = "done"
     /\ ~SubOverflows(cmp_call.p1, cmp_call.p2)
     /\ cmp_call.s1.hi = cmp_call.s2.hi
     /\ (cmp_call.s1.lo < 0) = (cmp_call.s2.lo < 0))
      => (cmp_call.r < 0 <=> HookBefore(cmp_call))

\* ------------------------------------------------------------------------
\* revert-seek
\* ------------------------------------------------------------------------

\* Largest playback position and largest clock value, in seconds.
MaxPos == 2

MaxTime == 4

Positions == 0..MaxPos

\* queue_seek(mpctx, MPSEEK_ABSOLUTE, target, ...): the seek is pending.
queue_seek(c, target) == [c EXCEPT !.queued = target]

\* mark_seek(mpctx).
mark_seek(c) ==
    [c EXCEPT !.last_seek_pts =
                 IF c.now > c.last_seek_time + 2
                      \/ c.last_seek_pts = MP_NOPTS_VALUE
                   THEN c.pos ELSE @,
              !.last_seek_time = c.now]

\* cmd_seek(p) for an absolute seek to target: [c, success].
cmd_seek(c, playback_initialized, target) ==
    IF ~playback_initialized
      THEN [c |-> c, success |-> FALSE]
      ELSE [c |-> queue_seek(mark_seek(c), target), success |-> TRUE]

\* Faulty variant: the marked position survives the revert.
cmd_revert_seek_keep_mark(c, playback_initialized, mark) ==
    IF ~playback_initialized
      THEN [c |-> c, success |-> FALSE]
      ELSE
        LET oldpts == IF c.marked_pts # MP_NOPTS_VALUE
                        THEN c.marked_pts ELSE c.last_seek_pts
        IN  IF mark = 1
              THEN [c |-> [c EXCEPT !.marked_pts = c.pos], success |-> TRUE]
              ELSE IF oldpts # MP_NOPTS_VALUE
                THEN [c |-> queue_seek([c EXCEPT !.last_seek_pts = c.pos],
                                       oldpts),
                      success |-> TRUE]
                ELSE [c |-> c, success |-> FALSE]

\* cmd_revert_seek(p); mark is cmd->args[0].v.i: [c, success].
cmd_revert_seek(c, playback_initialized, mark) ==
    IF ~playback_initialized
      THEN [c |-> c, success |-> FALSE]
      ELSE
        LET oldpts == IF c.marked_pts # MP_NOPTS_VALUE
                        THEN c.marked_pts ELSE c.last_seek_pts
        IN  IF mark = 1
              THEN [c |-> [c EXCEPT !.marked_pts = c.pos], success |-> TRUE]
              ELSE IF oldpts # MP_NOPTS_VALUE
                THEN [c |-> queue_seek(
                              [c EXCEPT !.last_seek_pts = c.pos,
                                        !.marked_pts = MP_NOPTS_VALUE],
                              oldpts),
                      success |-> TRUE]
                ELSE [c |-> c, success |-> FALSE]

\* command_event(mpctx, MPV_EVENT_START_FILE, arg).
command_event_start_file(c) ==
    [c EXCEPT !.last_seek_pts = MP_NOPTS_VALUE,
              !.marked_pts = MP_NOPTS_VALUE]

\* The fields of command_ctx and of the player, without the bookkeeping.
SeekFields(c) ==
    [last_seek_pts |-> c.last_seek_pts, last_seek_time |-> c.last_seek_time,
     marked_pts |-> c.marked_pts, pos |-> c.pos, now |-> c.now,
     queued |-> c.queued, touched |-> c.touched, revert_at |-> c.revert_at]

SeekUnchanged == UNCHANGED <<hookVars, cmdVars, prop_call, opt_call, pcall,
                             cmd_call, match_call, cmp_call>>

\* The player starts to load a file: MPV_EVENT_START_FILE.  Playback
\* begins at the start of the file.
StartFile ==
    /\ ~mp.playback_initialized
    /\ seek_ctx' = [command_event_start_file(seek_ctx) EXCEPT
                      !.pos = 0, !.queued = MP_NOPTS_VALUE,
                      !.touched = FALSE, !.revert_at = MP_NOPTS_VALUE,
                      !.last = [op |-> "start", mark |-> 0, target |-> 0,
                                init |-> FALSE, success |-> TRUE,
                                before |-> SeekFields(seek_ctx)]]
    /\ UNCHANGED mp
    /\ SeekUnchanged

\* The file that was started is loaded: playback is initialized.
FileLoaded ==
    /\ ~mp.playback_initialized
    /\ seek_ctx.last.op = "start"
    /\ mp' = [mp EXCEPT !.playback_initialized = TRUE]
    /\ seek_ctx' = [seek_ctx EXCEPT !.last = [op |-> "loaded"]]
    /\ SeekUnchanged

\* Playback of the file ends.
EndFile ==
    /\ mp.playback_initialized
    /\ mp' = [mp EXCEPT !.playback_initialized = FALSE]
    /\ seek_ctx' = [seek_ctx EXCEPT !.last = [op |-> "end"]]
    /\ SeekUnchanged

\* A seek command.
Seek(target) ==
    /\ LET res == cmd_seek(seek_ctx, mp.playback_initialized, target)
       IN  seek_ctx' =
             [res.c EXCEPT
                !.touched = @ \/ res.success,
                !.revert_at = IF res.success THEN MP_NOPTS_VALUE ELSE @,
                !.last = [op |-> "seek", mark |-> 0, target |-> target,
                          init |-> mp.playback_initialized,
                          success |-> res.success,
                          before |-> SeekFields(seek_ctx)]]
    /\ UNCHANGED mp
    /\ SeekUnchanged

\* A revert-seek command, with or without the mark flag.
RevertSeek(mark) ==
    /\ LET res == cmd_revert_seek(seek_ctx, mp.playback_initialized, mark)
       IN  seek_ctx' =
             [res.c EXCEPT
                !.touched = @ \/ (res.success /\ mark = 1),
                !.revert_at = IF ~res.success THEN @
                              ELSE IF mark = 1 THEN MP_NOPTS_VALUE
                              ELSE seek_ctx.pos,
                !.last = [op |-> "revert", mark |-> mark, target |-> 0,
                          init |-> mp.playback_initialized,
                          success |-> res.success,
                          before |-> SeekFields(seek_ctx)]]
    /\ UNCHANGED mp
    /\ SeekUnchanged

\* The play loop carries out the pending seek.
ExecSeek ==
    /\ mp.playback_initialized
    /\ seek_ctx.queued # MP_NOPTS_VALUE
    /\ seek_ctx' = [seek_ctx EXCEPT !.pos = seek_ctx.queued,
                                    !.queued = MP_NOPTS_VALUE,
                                    !.last = [op |-> "exec"]]
    /\ UNCHANGED mp
    /\ SeekUnchanged

\* A second passes; during playback the position may move on with it.
Tick(d) ==
    /\ seek_ctx.now < MaxTime
    /\ d = 1 => (mp.playback_initialized /\ seek_ctx.pos < MaxPos)
    /\ seek_ctx' = [seek_ctx EXCEPT !.now = @ + 1, !.pos = @ + d,
                                    !.last = [op |-> "tick"]]
    /\ UNCHANGED mp
    /\ SeekUnchanged

SeekNext ==
    \/ StartFile
    \/ FileLoaded
    \/ EndFile
    \/ \E target \in Positions : Seek(target)
    \/ \E mark \in {0, 1} : RevertSeek(mark)
    \/ ExecSeek
    \/ \E d \in {0, 1} : Tick(d)

SeekSpec == HookInit /\ [][SeekNext]_vars

\* The position a revert-seek goes back to from the fields c.
RevertTarget(c) ==
    IF c.marked_pts # MP_NOPTS_VALUE THEN c.marked_pts ELSE c.last_seek_pts

====
